---- MODULE Spec2Model ----
(***************************************************************************)
(* Model of the EDIFACT ORDERS generator of src/main.go.                   *)
(*                                                                         *)
(* A Go string is modelled as a sequence of one-character strings, one     *)
(* entry per byte (the EDIFACT character sets used here are single-byte,   *)
(* so len() counts characters).  A time.Time is modelled to the minute, a  *)
(* float64 amount as an integer number of hundredths.                      *)
(***************************************************************************)
EXTENDS Integers, Sequences, FiniteSets, TLC

VARIABLES
  gen,           \* the EDIFACTOrderGenerator's separator fields
  cfgRes,        \* outcome of the last WithCustomSeparators call
  order,         \* the EDIOrder passed to the running Generate call
  ctxDone,       \* TRUE once the call's context is cancelled
  pc,            \* position of the Generate call
  itemIdx,       \* index of the current item of the range loop
  segmentCount,  \* Generate's local segmentCount
  foundUNH,      \* Generate's local foundUNH
  out,           \* what the caller's writer has received, one entry per Write
  err,           \* the error returned by Generate
  listOut,       \* segments assembled by the list-building Generate variant
  strSeg,        \* the segment handed to EDISegment.String
  strRes,        \* the (text, error) pair returned by EDISegment.String
  pool,          \* the generator's sync.Pool and the strings.Builders it made
  prev,          \* outcome of the previous Generate call on the same order
  calls          \* the frames of the concurrent Generate calls

vars == <<gen, cfgRes, order, ctxDone, pc, itemIdx, segmentCount, foundUNH,
          out, err, listOut, strSeg, strRes, pool, prev, calls>>

(***************************************************************************)
(* Bounds of the model.                                                    *)
(***************************************************************************)
MaxItems == 2
MaxElemLen == 3

(***************************************************************************)
(* Program constants.                                                      *)
(***************************************************************************)
MaxSegmentLength == 1000
MaxFieldLength == 35
MaxItemCount == 999999

(***************************************************************************)
(* Strings.                                                                *)
(***************************************************************************)
Repeat(c, n) == [i \in 1..n |-> c]

HasPrefixAt(s, i, p) ==
  /\ i + Len(p) - 1 <= Len(s)
  /\ \A k \in 1..Len(p) : s[i + k - 1] = p[k]

\* strings.ReplaceAll for a one-byte pattern: its occurrences cannot overlap,
\* so every position is replaced on its own (halving keeps the nesting low).
RECURSIVE ReplaceChar(_, _, _, _, _)
ReplaceChar(s, lo, hi, c, new) ==
  IF lo > hi THEN <<>>
  ELSE IF lo = hi THEN (IF s[lo] = c THEN new ELSE <<s[lo]>>)
  ELSE LET mid == (lo + hi) \div 2
       IN ReplaceChar(s, lo, mid, c, new) \o ReplaceChar(s, mid + 1, hi, c, new)

\* strings.ReplaceAll for a longer pattern: leftmost non-overlapping matches.
RECURSIVE ReplaceFrom(_, _, _, _)
ReplaceFrom(s, i, old, new) ==
  IF i > Len(s) THEN <<>>
  ELSE IF HasPrefixAt(s, i, old) THEN new \o ReplaceFrom(s, i + Len(old), old, new)
  ELSE <<s[i]>> \o ReplaceFrom(s, i + 1, old, new)

\* strings.ReplaceAll with an empty pattern inserts new before every byte
\* and after the last one.
RECURSIVE InsertAll(_, _, _)
InsertAll(s, i, new) ==
  IF i > Len(s) THEN new
  ELSE new \o <<s[i]>> \o InsertAll(s, i + 1, new)

ReplaceAll(s, old, new) ==
  IF Len(old) = 0 THEN InsertAll(s, 1, new)
  ELSE IF Len(old) = 1 THEN ReplaceChar(s, 1, Len(s), old[1], new)
  ELSE ReplaceFrom(s, 1, old, new)

RECURSIVE Join(_, _)
Join(elems, sep) ==
  IF Len(elems) = 0 THEN <<>>
  ELSE IF Len(elems) = 1 THEN elems[1]
  ELSE elems[1] \o sep \o Join(Tail(elems), sep)

(***************************************************************************)
(* Errors: the cause (a sentinel error or a ValidationError with its       *)
(* field), under the chain of fmt.Errorf("...: %w") prefixes.              *)
(***************************************************************************)
NoIndex == 0 - 1
NoError == [cause |-> "nil", field |-> "", wraps |-> <<>>, index |-> NoIndex]
ErrInvalidSeparator ==
  [cause |-> "ErrInvalidSeparator", field |-> "", wraps |-> <<>>, index |-> NoIndex]
ErrSegmentTooLong ==
  [cause |-> "ErrSegmentTooLong", field |-> "", wraps |-> <<>>, index |-> NoIndex]
ErrContextCancelled ==
  [cause |-> "ErrContextCancelled", field |-> "", wraps |-> <<>>, index |-> NoIndex]
ValidationError(f) ==
  [cause |-> "ValidationError", field |-> f, wraps |-> <<>>, index |-> NoIndex]
Wrap(prefix, e) == [e EXCEPT !.wraps = <<prefix>> \o @]

\* The %d of a field name or of a wrapping prefix.
WithIndex(e, i) == [e EXCEPT !.index = i]

(***************************************************************************)
(* EDISegment.String                                                       *)
(***************************************************************************)
EscapeElement(elem, separator, terminator, releaseChar) ==
  LET e1 == ReplaceAll(elem, separator, releaseChar \o separator)
      e2 == ReplaceAll(e1, terminator, releaseChar \o terminator)
  IN ReplaceAll(e2, releaseChar, releaseChar \o releaseChar)

EscapedElements(elems, separator, terminator, releaseChar) ==
  [i \in 1..Len(elems) |-> EscapeElement(elems[i], separator, terminator, releaseChar)]

\* Variant: the limit taken as exclusive.
SegmentLengthExceeded_Inclusive(result) == Len(result) >= MaxSegmentLength

SegmentLengthExceeded(result) == Len(result) > MaxSegmentLength

String(s, separator, terminator, releaseChar) ==
  LET result == s.Tag \o separator
                  \o Join(EscapedElements(s.Elements, separator, terminator, releaseChar),
                          separator)
                  \o terminator
  IN IF SegmentLengthExceeded(result)
     THEN [text |-> <<>>, err |-> ErrSegmentTooLong]
     ELSE [text |-> result, err |-> NoError]

(***************************************************************************)
(* EDIFACTOrderGenerator.writeSegment: w is the writer's content so far.   *)
(* The writer keeps every chunk it is handed; the segment is recorded next *)
(* to its text to read the output back.                                    *)
(***************************************************************************)
\* The pool of strings.Builder values: builders[b] is the content of builder
\* b, free the builders that were Put and not handed out again.
NewPool == [builders |-> <<>>, free |-> {}]

\* The builders pool.Get may hand out: one that was Put or, when there is
\* none, the one pool.New makes.
PoolCandidates(p) == IF p.free = {} THEN {Len(p.builders) + 1} ELSE p.free

\* Variant: the builder handed out stays available to the next Get.
PoolGet_Shared(p, b) ==
  IF b > Len(p.builders)
  THEN [builders |-> Append(p.builders, <<>>), free |-> p.free \cup {b}]
  ELSE p

\* pool.Get() handing out builder b.
PoolGet(p, b) ==
  IF b > Len(p.builders)
  THEN [p EXCEPT !.builders = Append(@, <<>>)]
  ELSE [p EXCEPT !.free = @ \ {b}]

\* pool.Put(builder)
PoolPut(p, b) == [p EXCEPT !.free = @ \cup {b}]

\* Variant: the builder used as it comes out of the pool.
BuilderReset_Kept(content) == content

\* builder.Reset()
BuilderReset(content) == <<>>

\* The builder b of pool p after String has returned r: on an error the
\* deferred Put runs, otherwise the text and "\n" are written into b.
Filled(p, b, r) ==
  IF r.err # NoError
  THEN [pool |-> PoolPut(p, b), err |-> r.err]
  ELSE [pool |-> [p EXCEPT !.builders[b] = @ \o r.text \o <<"\n">>], err |-> NoError]

\* writeSegment up to the Write: Get, Reset, String and the two WriteString
\* calls into builder b.
FillBuilder(g, segment, p, b) ==
  Filled([PoolGet(p, b) EXCEPT !.builders[b] = BuilderReset(@)], b,
         String(segment, g.elementSeparator, g.segmentTerminator, g.releaseCharacter))

\* writer.Write([]byte(builder.String())) and the deferred Put.
FlushBuilder(segment, w, p, b) ==
  [out |-> Append(w, [seg |-> segment, text |-> p.builders[b]]),
   pool |-> PoolPut(p, b)]

\* writeSegment from the Write on, f being what FillBuilder has returned.
Flushed(segment, w, b, f) ==
  IF f.err # NoError
  THEN [out |-> w, err |-> f.err, pool |-> f.pool]
  ELSE [out |-> FlushBuilder(segment, w, f.pool, b).out,
        err |-> NoError,
        pool |-> FlushBuilder(segment, w, f.pool, b).pool]

\* writeSegment with builder b handed out by the pool.
WriteWith(g, segment, w, p, b) == Flushed(segment, w, b, FillBuilder(g, segment, p, b))

writeSegment(g, segment, w, p) ==
  WriteWith(g, segment, w, p, CHOOSE c \in PoolCandidates(p) : TRUE)

(***************************************************************************)
(* NewEDIFACTOrderGenerator, validateSeparators, WithCustomSeparators      *)
(***************************************************************************)
DefaultGenerator ==
  [segmentTerminator |-> <<"'">>, elementSeparator |-> <<"+">>,
   componentSeparator |-> <<":">>, decimalMark |-> <<".">>,
   releaseCharacter |-> <<"?">>]

\* Indexing byte 0 of an empty string panics (index out of range).
validateSeparatorsPanics(g) ==
  \/ Len(g.segmentTerminator) = 0
  \/ Len(g.elementSeparator) = 0
  \/ Len(g.componentSeparator) = 0
  \/ Len(g.releaseCharacter) = 0

SeparatorRunes(g) ==
  {g.segmentTerminator[1], g.elementSeparator[1],
   g.componentSeparator[1], g.releaseCharacter[1]}

validateSeparators(g) ==
  IF validateSeparatorsPanics(g) THEN "panic"
  ELSE IF Cardinality(SeparatorRunes(g)) # 4 THEN "ErrInvalidSeparator"
  ELSE "ok"

\* The separator strings a caller passes in.
SepStrings ==
  {<<>>, <<"'">>, <<"+">>, <<":">>, <<"?">>, <<"+", "'">>}
DecimalStrings == {<<".">>, <<"+">>}

\* The fields are assigned first and validated afterwards.  On an error the
\* caller is handed a nil generator, so the calls modelled start from a
\* generator that a constructor or an earlier call has returned.
WithCustomSeparators ==
  /\ cfgRes \in {"none", "ok"}
  /\ pc = "idle"
  /\ \E terminator \in SepStrings, element \in SepStrings, component \in SepStrings,
        decimal \in DecimalStrings, release \in SepStrings :
       LET g == [segmentTerminator |-> terminator, elementSeparator |-> element,
                 componentSeparator |-> component, decimalMark |-> decimal,
                 releaseCharacter |-> release]
       IN /\ gen' = g
          /\ cfgRes' = validateSeparators(g)
  /\ UNCHANGED <<order, ctxDone, pc, itemIdx, segmentCount, foundUNH, out, err,
                 listOut, strSeg, strRes, pool, prev, calls>>

(***************************************************************************)
(* Formatting: strconv.Itoa, time.Format, strconv.FormatFloat(x,'f',2,64)  *)
(* and fmt's %v of a float64.                                              *)
(***************************************************************************)
Digit(d) == <<"0", "1", "2", "3", "4", "5", "6", "7", "8", "9">>[d + 1]

RECURSIVE NatDigits(_)
NatDigits(n) ==
  IF n < 10 THEN <<Digit(n)>> ELSE Append(NatDigits(n \div 10), Digit(n % 10))

Itoa(n) == IF n < 0 THEN <<"-">> \o NatDigits(0 - n) ELSE NatDigits(n)

Pad(n, width) ==
  LET d == NatDigits(n)
  IN IF Len(d) >= width THEN d ELSE Repeat("0", width - Len(d)) \o d

\* A time.Time: the wall clock to the minute and the *Location it carries,
\* "nil" (UTC) or "zone", a zone of offset 0 as time.FixedZone returns, in
\* which the wall clock reads the same.  IsZero looks at the instant only;
\* a comparison with time.Time{} compares the location as well.
ZeroTime == [y |-> 1, m |-> 1, d |-> 1, hh |-> 0, mi |-> 0, loc |-> "nil"]
IsZero(t) == [t EXCEPT !.loc = "nil"] = ZeroTime

FormatYYMMDD(t) == Pad(t.y % 100, 2) \o Pad(t.m, 2) \o Pad(t.d, 2)
FormatHHMM(t) == Pad(t.hh, 2) \o Pad(t.mi, 2)
FormatCCYYMMDD(t) == Pad(t.y, 4) \o Pad(t.m, 2) \o Pad(t.d, 2)

Abs(n) == IF n < 0 THEN 0 - n ELSE n

\* x is the amount in hundredths.
FormatFloat2(x) ==
  (IF x < 0 THEN <<"-">> ELSE <<>>)
    \o NatDigits(Abs(x) \div 100) \o <<".">> \o Pad(Abs(x) % 100, 2)

\* %v prints the shortest decimal that reads back as the same float64.
FormatV(x) ==
  LET a == Abs(x)
      sign == IF x < 0 THEN <<"-">> ELSE <<>>
  IN IF a % 100 = 0 THEN sign \o NatDigits(a \div 100)
     ELSE IF a % 10 = 0
          THEN sign \o NatDigits(a \div 100) \o <<".">> \o <<Digit((a % 100) \div 10)>>
          ELSE sign \o NatDigits(a \div 100) \o <<".">> \o Pad(a % 100, 2)

(***************************************************************************)
(* Address.Validate, EDIOrderItem.Validate, EDIOrder.Validate              *)
(***************************************************************************)
RECURSIVE FirstLongLine(_, _)
FirstLongLine(lines, i) ==
  IF i > Len(lines) THEN 0
  ELSE IF Len(lines[i]) > MaxFieldLength THEN i
  ELSE FirstLongLine(lines, i + 1)

AddressValidate(a) ==
  IF a.Name = <<>> THEN ValidationError("Address.Name")
  ELSE IF Len(a.Lines) = 0 THEN ValidationError("Address.Lines")
  ELSE IF FirstLongLine(a.Lines, 1) # 0
       THEN WithIndex(ValidationError("Address.Lines[%d]"), FirstLongLine(a.Lines, 1) - 1)
  ELSE NoError

ItemValidate(i) ==
  IF i.LineNumber <= 0 THEN ValidationError("EDIOrderItem.LineNumber")
  ELSE IF i.BuyerItemCode = <<>> THEN ValidationError("EDIOrderItem.BuyerItemCode")
  ELSE IF Len(i.BuyerItemCode) > MaxFieldLength
       THEN ValidationError("EDIOrderItem.BuyerItemCode")
  ELSE IF i.Quantity <= 0 THEN ValidationError("EDIOrderItem.Quantity")
  ELSE IF i.UnitPrice < 0 THEN ValidationError("EDIOrderItem.UnitPrice")
  ELSE NoError

\* Variant: the loop run over all items, the last failure kept.
RECURSIVE ItemsValidate_LastKept(_, _)
ItemsValidate_LastKept(items, i) ==
  IF i > Len(items) THEN NoError
  ELSE IF ItemsValidate_LastKept(items, i + 1) # NoError
       THEN ItemsValidate_LastKept(items, i + 1)
  ELSE IF ItemValidate(items[i]) # NoError
       THEN WithIndex(Wrap("item at index %d validation failed", ItemValidate(items[i])),
                      i - 1)
  ELSE NoError

\* "for i, item := range o.Items": i here is the Go index plus one.
RECURSIVE ItemsValidate(_, _)
ItemsValidate(items, i) ==
  IF i > Len(items) THEN NoError
  ELSE IF ItemValidate(items[i]) # NoError
       THEN WithIndex(Wrap("item at index %d validation failed", ItemValidate(items[i])),
                      i - 1)
  ELSE ItemsValidate(items, i + 1)

\* Variant: a declared total above the item count let through.
TotalLinesMatch_AtLeast(o) == o.TotalLines >= Len(o.Items)

TotalLinesMatch(o) == o.TotalLines = Len(o.Items)

Validate(o) ==
  IF o.InterchangeSenderID = <<>> THEN ValidationError("EDIOrder.InterchangeSenderID")
  ELSE IF Len(o.InterchangeSenderID) > MaxFieldLength
       THEN ValidationError("EDIOrder.InterchangeSenderID")
  ELSE IF o.InterchangeReceiverID = <<>>
       THEN ValidationError("EDIOrder.InterchangeReceiverID")
  ELSE IF Len(o.InterchangeReceiverID) > MaxFieldLength
       THEN ValidationError("EDIOrder.InterchangeReceiverID")
  ELSE IF o.InterchangeControlRef = <<>>
       THEN ValidationError("EDIOrder.InterchangeControlRef")
  ELSE IF o.MessageRefNumber = <<>> THEN ValidationError("EDIOrder.MessageRefNumber")
  ELSE IF o.OrderNumber = <<>> THEN ValidationError("EDIOrder.OrderNumber")
  ELSE IF Len(o.OrderNumber) > MaxFieldLength THEN ValidationError("EDIOrder.OrderNumber")
  ELSE IF IsZero(o.OrderDate) THEN ValidationError("EDIOrder.OrderDate")
  ELSE IF AddressValidate(o.Buyer) # NoError
       THEN Wrap("buyer validation failed", AddressValidate(o.Buyer))
  ELSE IF AddressValidate(o.Seller) # NoError
       THEN Wrap("seller validation failed", AddressValidate(o.Seller))
  ELSE IF o.Delivery.Name # <<>> /\ AddressValidate(o.Delivery) # NoError
       THEN Wrap("delivery validation failed", AddressValidate(o.Delivery))
  ELSE IF Len(o.Items) = 0 THEN ValidationError("EDIOrder.Items")
  ELSE IF Len(o.Items) > MaxItemCount THEN ValidationError("EDIOrder.Items")
  ELSE IF ItemsValidate(o.Items, 1) # NoError THEN ItemsValidate(o.Items, 1)
  ELSE IF ~TotalLinesMatch(o) THEN ValidationError("EDIOrder.TotalLines")
  ELSE NoError

(***************************************************************************)
(* The segment tags and fixed codes (const block of main.go).              *)
(***************************************************************************)
SegmentTagUNB == <<"U", "N", "B">>
SegmentTagUNH == <<"U", "N", "H">>
SegmentTagBGM == <<"B", "G", "M">>
SegmentTagDTM == <<"D", "T", "M">>
SegmentTagCUX == <<"C", "U", "X">>
SegmentTagNAD == <<"N", "A", "D">>
SegmentTagTOD == <<"T", "O", "D">>
SegmentTagPAT == <<"P", "A", "T">>
SegmentTagTDT == <<"T", "D", "T">>
SegmentTagLIN == <<"L", "I", "N">>
SegmentTagIMD == <<"I", "M", "D">>
SegmentTagQTY == <<"Q", "T", "Y">>
SegmentTagPRI == <<"P", "R", "I">>
SegmentTagMOA == <<"M", "O", "A">>
SegmentTagUNS == <<"U", "N", "S">>
SegmentTagCNT == <<"C", "N", "T">>
SegmentTagUNT == <<"U", "N", "T">>
SegmentTagUNZ == <<"U", "N", "Z">>

QualifierDocumentDate == <<"1", "3", "7">>
QualifierDeliveryDate == <<"2">>
QualifierLineDeliveryDate == <<"6", "4">>
CodeOrder == <<"2", "2", "0">>
CodeOriginal == <<"9">>
PartyBuyer == <<"B", "Y">>
PartySeller == <<"S", "E">>
PartyDelivery == <<"D", "P">>
PartyInvoice == <<"I", "V">>
IDTypeBuyer == <<"9">>
CurrencyReference == <<"2">>
QuantityOrdered == <<"2", "1">>
PriceNet == <<"A", "A", "A">>
AmountLine == <<"2", "0", "3">>
AmountTotal == <<"1", "2", "8">>
ControlTotalLines == <<"2">>

Colon == <<":">>
Segment(tag, elements) == [Tag |-> tag, Elements |-> elements]

(***************************************************************************)
(* DefaultSegmentBuilder: the segment each Build method returns when the   *)
(* context is not cancelled (the cancellation check is in BuilderCall).    *)
(***************************************************************************)
BuildUNB(o) ==
  LET syntaxID == IF o.SyntaxIdentifier # <<>> THEN o.SyntaxIdentifier
                  ELSE <<"U", "N", "O", "A">>
      syntaxVersion == IF o.SyntaxVersion # <<>> THEN o.SyntaxVersion ELSE <<"2">>
      testIndicator == IF o.TestIndicator = 1 THEN <<"1">> ELSE <<>>
  IN Segment(SegmentTagUNB,
       <<syntaxID \o Colon \o syntaxVersion, o.InterchangeSenderID,
         o.InterchangeReceiverID, FormatYYMMDD(o.OrderDate), FormatHHMM(o.OrderDate),
         o.InterchangeControlRef, <<>>, <<>>, testIndicator>>)

BuildUNH(o) ==
  LET messageVersion == IF o.MessageVersion # <<>> THEN o.MessageVersion ELSE <<"D">>
      messageRelease == IF o.MessageRelease # <<>> THEN o.MessageRelease
                        ELSE <<"9", "6", "A">>
      responsibleAgency == IF o.ResponsibleAgency # <<>> THEN o.ResponsibleAgency
                           ELSE <<"U", "N">>
      associationCode == IF o.AssociationCode # <<>> THEN o.AssociationCode
                         ELSE <<"E", "A", "N", "0", "0", "8">>
  IN Segment(SegmentTagUNH,
       <<o.MessageRefNumber,
         <<"O", "R", "D", "E", "R", "S">> \o Colon \o messageVersion \o Colon
           \o messageRelease \o Colon \o responsibleAgency \o Colon \o associationCode>>)

BuildBGM(o) == Segment(SegmentTagBGM, <<CodeOrder, o.OrderNumber, CodeOriginal>>)

BuildDTM(date, qualifier) ==
  Segment(SegmentTagDTM,
    <<qualifier \o Colon \o FormatCCYYMMDD(date) \o Colon \o <<"1", "0", "2">> >>)

BuildCUX(o) ==
  LET qualifier == IF o.CurrencyQualifier # <<>> THEN o.CurrencyQualifier
                   ELSE CurrencyReference
  IN Segment(SegmentTagCUX, <<qualifier \o Colon \o o.Currency \o Colon \o <<"9">> >>)

BuildNAD(g, partyQualifier, address) ==
  LET idType == IF address.IDType # <<>> THEN address.IDType ELSE IDTypeBuyer
      idElem == IF address.ID # <<>> THEN address.ID \o Colon \o Colon \o idType
                ELSE <<>>
      addrStr == Join(address.Lines, g.componentSeparator)
  IN Segment(SegmentTagNAD, <<partyQualifier, idElem, addrStr, <<>>, address.Name>>)

BuildTOD(o) ==
  Segment(SegmentTagTOD,
    <<<<"3">>, <<>>,
      IF o.DeliveryTermsCode # <<>> THEN Colon \o Colon \o o.DeliveryTermsCode
      ELSE Colon \o Colon \o o.DeliveryTerms>>)

\* Variant: the free text preferred to the code.
BuildPAT_TextFirst(o) ==
  Segment(SegmentTagPAT,
    <<<<"1">>, <<>>,
      IF o.PaymentTerms # <<>> THEN o.PaymentTerms ELSE o.PaymentTermsCode>>)

BuildPAT(o) ==
  Segment(SegmentTagPAT,
    <<<<"1">>, <<>>,
      IF o.PaymentTermsCode # <<>> THEN o.PaymentTermsCode ELSE o.PaymentTerms>>)

BuildTDT(o) ==
  Segment(SegmentTagTDT,
    <<<<"2", "0">>, <<"1">>, <<>>,
      IF o.TransportModeCode # <<>> THEN o.TransportModeCode ELSE o.TransportMode>>)

BuildLIN(item) ==
  Segment(SegmentTagLIN,
    <<Itoa(item.LineNumber), <<>>, item.BuyerItemCode \o Colon \o <<"E", "N">>, <<>>,
      IF item.SupplierItemCode # <<>>
      THEN item.SupplierItemCode \o Colon \o <<"S", "A">> ELSE <<>> >>)

BuildIMD(item) ==
  Segment(SegmentTagIMD,
    <<<<"F">>, <<>>, <<>>, Colon \o Colon \o Colon \o item.Description>>)

BuildQTY(item) ==
  LET uom == IF item.UnitOfMeasure = <<>> THEN <<"P", "C", "E">> ELSE item.UnitOfMeasure
  IN Segment(SegmentTagQTY,
       <<QuantityOrdered \o Colon \o FormatFloat2(item.Quantity) \o Colon \o uom>>)

BuildPRI(item) ==
  Segment(SegmentTagPRI, <<PriceNet \o Colon \o FormatFloat2(item.UnitPrice)>>)

BuildMOA(item) ==
  Segment(SegmentTagMOA, <<AmountLine \o Colon \o FormatFloat2(item.Amount)>>)

BuildCNT(o) ==
  Segment(SegmentTagCNT, <<ControlTotalLines \o Colon \o Itoa(o.TotalLines)>>)

BuildMOATotal(o) ==
  Segment(SegmentTagMOA, <<AmountTotal \o Colon \o FormatFloat2(o.TotalAmount)>>)

\* Variant: the trailer counted among the message's segments.
BuildUNT_CountsItself(o, count) ==
  Segment(SegmentTagUNT, <<Itoa(count + 1), o.MessageRefNumber>>)

BuildUNT(o, count) == Segment(SegmentTagUNT, <<Itoa(count), o.MessageRefNumber>>)

BuildUNZ(o, messageCount) ==
  Segment(SegmentTagUNZ, <<Itoa(messageCount), o.InterchangeControlRef>>)

MessageCount == 1

(***************************************************************************)
(* The orders handed to Generate.  An order is described by the optional   *)
(* parts it carries and by the validation rules it breaks.                 *)
(***************************************************************************)
OrderTime == [y |-> 2024, m |-> 3, d |-> 5, hh |-> 9, mi |-> 7, loc |-> "nil"]
DeliveryTime == [y |-> 2024, m |-> 3, d |-> 12, hh |-> 0, mi |-> 0, loc |-> "nil"]
\* time.Time{}.In(time.FixedZone("Z", 0)): the zero instant, in a zone.
ZeroTimeInZone == [ZeroTime EXCEPT !.loc = "zone"]

Address(name, lines, id, idType) ==
  [Name |-> name, Lines |-> lines, ID |-> id, IDType |-> idType]
NoAddress == Address(<<>>, <<>>, <<>>, <<>>)

TermKinds == {"TOD", "PAT", "TDT"}
DescKinds == {"plain", "special", "fit", "long"}
Defects ==
  {"senderEmpty", "senderLong", "receiverEmpty", "receiverLong", "controlRefEmpty",
   "messageRefEmpty", "orderNumberEmpty", "orderNumberLong", "orderDateZero",
   "buyerNoName", "buyerNoLines", "buyerLongLine",
   "sellerNoName", "sellerNoLines", "sellerLongLine",
   "deliveryNoLines", "deliveryLongLine", "invoiceNoLines", "invoiceLongLine",
   "noItems", "itemLineNumber", "itemCodeEmpty", "itemCodeLong", "itemQuantity",
   "itemPrice", "item2CodeEmpty", "item2Quantity", "totalLines"}

\* The length of an IMD segment around its description: "IMD+F+++:::" and "'".
IMDOverhead == Len(SegmentTagIMD) + Len(<<"+", "F", "+", "+", "+", ":", ":", ":", "'">>)

Description(kind) ==
  CASE kind = "plain" -> <<"W">>
    [] kind = "special" -> <<"a", "+", "b", "?", "c", "'", "d">>
    [] kind = "fit" -> Repeat("x", MaxSegmentLength - IMDOverhead)
    [] kind = "long" -> Repeat("x", MaxSegmentLength - IMDOverhead + 1)

LongText == Repeat("x", MaxFieldLength + 1)

Defective(addr, f, noName, noLines, longLine) ==
  [addr EXCEPT
     !.Name = IF noName \in f.defects THEN <<>> ELSE @,
     !.Lines = IF noLines \in f.defects THEN <<>>
               ELSE IF longLine \in f.defects THEN <<LongText>> ELSE @]

MkItem(f, k) ==
  [LineNumber |-> IF k = 1 /\ "itemLineNumber" \in f.defects THEN 0 ELSE k,
   BuyerItemCode |-> IF k = 1 /\ "itemCodeEmpty" \in f.defects THEN <<>>
                     ELSE IF k = 2 /\ "item2CodeEmpty" \in f.defects THEN <<>>
                     ELSE IF k = 1 /\ "itemCodeLong" \in f.defects THEN LongText
                     ELSE <<"I", Digit(k)>>,
   SupplierItemCode |-> IF k = 1 THEN <<"S", "1">> ELSE <<>>,
   Quantity |-> IF k = 1 /\ "itemQuantity" \in f.defects THEN 0
                ELSE IF k = 2 /\ "item2Quantity" \in f.defects THEN 0
                ELSE 500 * k,
   UnitPrice |-> IF k = 1 /\ "itemPrice" \in f.defects THEN 0 - 1 ELSE 2550,
   UnitOfMeasure |-> IF k = 1 THEN <<"K", "G", "M">> ELSE <<>>,
   Description |-> IF k = 1 THEN Description(f.desc) ELSE <<"G">>,
   TaxRate |-> 1000,
   Amount |-> (500 * k * 2550) \div 100,
   DeliveryDate |-> IF k \in f.idd THEN DeliveryTime ELSE ZeroTime]

MkOrder(f) ==
  LET items == IF "noItems" \in f.defects THEN <<>> ELSE [k \in 1..f.n |-> MkItem(f, k)]
      useText == f.form \in {"text", "both"}
      useCode == f.form \in {"code", "both"}
  IN
  [InterchangeSenderID |-> IF "senderEmpty" \in f.defects THEN <<>>
                           ELSE IF "senderLong" \in f.defects THEN LongText
                           ELSE <<"S", "N", "D">>,
   InterchangeReceiverID |-> IF "receiverEmpty" \in f.defects THEN <<>>
                             ELSE IF "receiverLong" \in f.defects THEN LongText
                             ELSE <<"R", "C", "V">>,
   InterchangeControlRef |-> IF "controlRefEmpty" \in f.defects THEN <<>> ELSE <<"7">>,
   MessageRefNumber |-> IF "messageRefEmpty" \in f.defects THEN <<>> ELSE <<"4", "2">>,
   OrderNumber |-> IF "orderNumberEmpty" \in f.defects THEN <<>>
                   ELSE IF "orderNumberLong" \in f.defects THEN LongText
                   ELSE <<"P", "O", "-", "1">>,
   OrderDate |-> IF "orderDateZero" \in f.defects THEN ZeroTime ELSE OrderTime,
   Currency |-> IF f.cur THEN <<"U", "S", "D">> ELSE <<>>,
   CurrencyQualifier |-> <<>>,
   Buyer |-> Defective(Address(<<"B", "u", "y">>, <<<<"M", "a", "i", "n">>, <<"N", "Y">>>>,
                               <<"B", "1">>, <<"1", "4">>),
                       f, "buyerNoName", "buyerNoLines", "buyerLongLine"),
   Seller |-> Defective(Address(<<"S", "e", "l">>, <<<<"A", "v", "e">>>>, <<"S", "9">>, <<>>),
                        f, "sellerNoName", "sellerNoLines", "sellerLongLine"),
   Delivery |-> IF f.dp \/ f.defects \cap {"deliveryNoLines", "deliveryLongLine"} # {}
                THEN Defective(Address(<<"D", "e", "p">>, <<<<"D", "o", "c", "k">>>>, <<>>, <<>>),
                               f, "-", "deliveryNoLines", "deliveryLongLine")
                ELSE NoAddress,
   Invoice |-> IF f.iv \/ f.defects \cap {"invoiceNoLines", "invoiceLongLine"} # {}
               THEN Defective(Address(<<"I", "n", "v">>, <<<<"H", "Q">>>>, <<>>, <<>>),
                              f, "-", "invoiceNoLines", "invoiceLongLine")
               ELSE NoAddress,
   DeliveryDate |-> IF f.dd = "none" THEN ZeroTime
                    ELSE IF f.dd = "zeroInZone" THEN ZeroTimeInZone
                    ELSE DeliveryTime,
   DeliveryDateQualifier |-> IF f.dd = "dateQ" THEN <<"1", "0">> ELSE <<>>,
   DeliveryTerms |-> IF "TOD" \in f.terms /\ useText THEN <<"C", "F", "R">> ELSE <<>>,
   DeliveryTermsCode |-> IF "TOD" \in f.terms /\ useCode THEN <<"F", "O", "B">> ELSE <<>>,
   PaymentTerms |-> IF "PAT" \in f.terms /\ useText THEN <<"N", "e", "t">> ELSE <<>>,
   PaymentTermsCode |-> IF "PAT" \in f.terms /\ useCode THEN <<"3", "0">> ELSE <<>>,
   TransportMode |-> IF "TDT" \in f.terms /\ useText THEN <<"R", "o", "a", "d">> ELSE <<>>,
   TransportModeCode |-> IF "TDT" \in f.terms /\ useCode THEN <<"3">> ELSE <<>>,
   Items |-> items,
   TotalAmount |-> 75495,
   TotalLines |-> IF "totalLines" \in f.defects THEN Len(items) + 1 ELSE Len(items),
   TotalQuantity |-> 1500,
   TestIndicator |-> 1,
   MessageVersion |-> <<>>,
   MessageRelease |-> <<>>,
   ResponsibleAgency |-> <<>>,
   AssociationCode |-> <<>>,
   SyntaxIdentifier |-> <<>>,
   SyntaxVersion |-> <<>>]

BaseFlags ==
  [dd |-> "none", cur |-> TRUE, dp |-> FALSE, iv |-> FALSE, terms |-> {},
   form |-> "text", n |-> 1, idd |-> {}, desc |-> "plain", defects |-> {}]

\* Every combination of the optional parts, on a well-formed order.
PresenceFlags ==
  {f \in [dd : {"none", "date"}, cur : BOOLEAN, dp : BOOLEAN, iv : BOOLEAN,
          terms : SUBSET TermKinds, form : {"text"},
          n : 1..MaxItems, idd : SUBSET (1..MaxItems),
          desc : {"plain"}, defects : {{}}] :
     f.idd \subseteq 1..f.n}

\* The forms the delivery date qualifier and the three terms can take.
ContentFlags ==
  {[BaseFlags EXCEPT !.dd = d, !.terms = t, !.form = m] :
     d \in {"none", "date", "dateQ"}, t \in SUBSET TermKinds,
     m \in {"text", "code", "both"}}

OptionFlags == PresenceFlags \cup ContentFlags

\* Descriptions holding special characters or filling the segment.
DescriptionFlags ==
  {[f EXCEPT !.desc = k] :
     f \in {g \in OptionFlags : g.terms = {} /\ g.dd = "none" /\ ~g.iv},
     k \in DescKinds \ {"plain"}}

\* Orders that break one validation rule, and orders of two items, with
\* a named delivery and a named invoice address, that break two.
DefectFlags ==
  {[f EXCEPT !.defects = {"totalLines"}] : f \in OptionFlags}
    \cup {[BaseFlags EXCEPT !.defects = {d}] : d \in Defects}
    \cup {[BaseFlags EXCEPT !.dp = TRUE, !.iv = TRUE, !.n = 2, !.defects = {d, e}] :
            d \in Defects, e \in Defects}

\* Orders whose delivery date is the zero instant with a location set.
ZoneFlags ==
  {[BaseFlags EXCEPT !.dd = "zeroInZone", !.n = k] : k \in 1..MaxItems}

Flags == OptionFlags \cup DescriptionFlags \cup DefectFlags \cup ZoneFlags
Orders == {MkOrder(f) : f \in Flags}

\* The orders of the calls that run at the same time.  The first call is
\* handed a short order or one whose IMD segment is too long, the second
\* one with optional segments or one that fails validation.
ConcurrentFlags ==
  <<{BaseFlags, [BaseFlags EXCEPT !.desc = "long"]},
    {[BaseFlags EXCEPT !.dd = "date", !.dp = TRUE, !.terms = {"TOD", "TDT"},
                       !.idd = {1}],
     [BaseFlags EXCEPT !.defects = {"totalLines"}]}>>

ConcurrentOrders(i) == {MkOrder(f) : f \in ConcurrentFlags[i]}

(***************************************************************************)
(* EDIFACTOrderGenerator.Generate, one action per segment.                 *)
(***************************************************************************)
GenFrame == UNCHANGED <<gen, cfgRes, order, ctxDone, listOut, strSeg, strRes, prev, calls>>

\* return err
Return(e) ==
  /\ err' = e
  /\ pc' = "done"
  /\ UNCHANGED <<out, segmentCount, foundUNH, itemIdx, pool>>

\* "return err" after a failed g.writeSegment, which has used the pool.
WriteFailed(r) ==
  /\ err' = r.err
  /\ pc' = "done"
  /\ pool' = r.pool
  /\ UNCHANGED <<out, segmentCount, foundUNH, itemIdx>>

\* Variant: the increment after a write left out.
CountAfterWrite_NoIncrement(found, count) == count

\* The count after a segment is written: "if foundUNH { segmentCount++ }".
CountAfterWrite(found, count) == IF found THEN count + 1 ELSE count

\* g.writeSegment(seg, writer) and the statements up to the next segment.
WriteAndCount(seg, next) ==
  LET r == writeSegment(gen, seg, out, pool)
  IN IF r.err # NoError
     THEN WriteFailed(r)
     ELSE /\ out' = r.out
          /\ pool' = r.pool
          /\ segmentCount' = CountAfterWrite(foundUNH, segmentCount)
          /\ pc' = next
          /\ UNCHANGED <<err, foundUNH, itemIdx>>

\* A call of a DefaultSegmentBuilder method, which returns
\* ErrContextCancelled when the context is done, then the write.
BuilderCall(name, seg, next) ==
  IF ctxDone
  THEN Return(Wrap(name, ErrContextCancelled))
  ELSE WriteAndCount(seg, next)

\* Variant: the coded delivery terms left out of the presence condition.
HasTOD_TextOnly(o) == o.DeliveryTerms # <<>>

\* The presence conditions of the three terms segments.
HasTOD(o) == o.DeliveryTerms # <<>> \/ o.DeliveryTermsCode # <<>>
HasPAT(o) == o.PaymentTerms # <<>> \/ o.PaymentTermsCode # <<>>
HasTDT(o) == o.TransportMode # <<>> \/ o.TransportModeCode # <<>>

Skip(next) ==
  /\ pc' = next
  /\ UNCHANGED <<out, err, segmentCount, foundUNH, itemIdx, pool>>

\* Variant: the order validated before the context is looked at.
StartCall_ValidateFirst(o, cancelled) ==
  /\ order' = o
  /\ ctxDone' = cancelled
  /\ out' = <<>>
  /\ segmentCount' = 0
  /\ foundUNH' = FALSE
  /\ itemIdx' = 1
  /\ IF Validate(o) # NoError
     THEN err' = Wrap("order validation failed", Validate(o)) /\ pc' = "done"
     ELSE IF cancelled
          THEN err' = ErrContextCancelled /\ pc' = "done"
          ELSE err' = NoError /\ pc' = "UNB"

\* Generate(ctx, o, writer) up to the first segment, with a writer that
\* has received nothing yet.
StartCall(o, cancelled) ==
  /\ order' = o
  /\ ctxDone' = cancelled
  /\ out' = <<>>
  /\ segmentCount' = 0
  /\ foundUNH' = FALSE
  /\ itemIdx' = 1
  /\ IF cancelled
     THEN err' = ErrContextCancelled /\ pc' = "done"
     ELSE IF Validate(o) # NoError
          THEN err' = Wrap("order validation failed", Validate(o)) /\ pc' = "done"
          ELSE err' = NoError /\ pc' = "UNB"

GenerateStart ==
  /\ pc = "idle"
  /\ cfgRes \in {"none", "ok"}
  /\ \E o \in Orders, cancelled \in BOOLEAN : StartCall(o, cancelled)
  /\ UNCHANGED <<gen, cfgRes, listOut, strSeg, strRes, pool, prev, calls>>

GenUNB ==
  /\ pc = "UNB"
  /\ BuilderCall("failed to build UNB", BuildUNB(order), "UNH")
  /\ GenFrame

GenUNH ==
  /\ pc = "UNH"
  /\ IF ctxDone
     THEN Return(Wrap("failed to build UNH", ErrContextCancelled))
     ELSE LET r == writeSegment(gen, BuildUNH(order), out, pool)
          IN IF r.err # NoError
             THEN WriteFailed(r)
             ELSE /\ out' = r.out
                  /\ pool' = r.pool
                  /\ foundUNH' = TRUE
                  /\ segmentCount' = 1
                  /\ pc' = "BGM"
                  /\ UNCHANGED <<err, itemIdx>>
  /\ GenFrame

GenBGM ==
  /\ pc = "BGM"
  /\ BuilderCall("failed to build BGM", BuildBGM(order), "DTM")
  /\ GenFrame

GenDTM ==
  /\ pc = "DTM"
  /\ BuilderCall("failed to build DTM", BuildDTM(order.OrderDate, QualifierDocumentDate),
                 "deliveryDTM")
  /\ GenFrame

GenDeliveryDTM ==
  /\ pc = "deliveryDTM"
  /\ IF ~IsZero(order.DeliveryDate)
     THEN LET qualifier == IF order.DeliveryDateQualifier # <<>>
                           THEN order.DeliveryDateQualifier ELSE QualifierDeliveryDate
          IN BuilderCall("failed to build delivery DTM",
                         BuildDTM(order.DeliveryDate, qualifier), "CUX")
     ELSE Skip("CUX")
  /\ GenFrame

GenCUX ==
  /\ pc = "CUX"
  /\ IF order.Currency # <<>>
     THEN BuilderCall("failed to build CUX", BuildCUX(order), "buyerNAD")
     ELSE Skip("buyerNAD")
  /\ GenFrame

GenBuyerNAD ==
  /\ pc = "buyerNAD"
  /\ IF order.Buyer.Name # <<>>
     THEN BuilderCall("failed to build buyer NAD", BuildNAD(gen, PartyBuyer, order.Buyer),
                      "sellerNAD")
     ELSE Skip("sellerNAD")
  /\ GenFrame

GenSellerNAD ==
  /\ pc = "sellerNAD"
  /\ IF order.Seller.Name # <<>>
     THEN BuilderCall("failed to build seller NAD",
                      BuildNAD(gen, PartySeller, order.Seller), "deliveryNAD")
     ELSE Skip("deliveryNAD")
  /\ GenFrame

GenDeliveryNAD ==
  /\ pc = "deliveryNAD"
  /\ IF order.Delivery.Name # <<>>
     THEN BuilderCall("failed to build delivery NAD",
                      BuildNAD(gen, PartyDelivery, order.Delivery), "invoiceNAD")
     ELSE Skip("invoiceNAD")
  /\ GenFrame

\* Variant: the condition of the delivery party kept in the pasted block.
GenInvoiceNAD_Pasted ==
  /\ pc = "invoiceNAD"
  /\ IF order.Delivery.Name # <<>>
     THEN BuilderCall("failed to build invoice NAD",
                      BuildNAD(gen, PartyInvoice, order.Invoice), "TOD")
     ELSE Skip("TOD")
  /\ GenFrame

GenInvoiceNAD ==
  /\ pc = "invoiceNAD"
  /\ IF order.Invoice.Name # <<>>
     THEN BuilderCall("failed to build invoice NAD",
                      BuildNAD(gen, PartyInvoice, order.Invoice), "TOD")
     ELSE Skip("TOD")
  /\ GenFrame

\* Variant: the PAT block pasted in the place of the TOD block.
GenTOD_Pasted ==
  /\ pc = "TOD"
  /\ IF HasPAT(order)
     THEN BuilderCall("failed to build PAT", BuildPAT(order), "PAT")
     ELSE Skip("PAT")
  /\ GenFrame

GenTOD ==
  /\ pc = "TOD"
  /\ IF HasTOD(order)
     THEN BuilderCall("failed to build TOD", BuildTOD(order), "PAT")
     ELSE Skip("PAT")
  /\ GenFrame

GenPAT ==
  /\ pc = "PAT"
  /\ IF HasPAT(order)
     THEN BuilderCall("failed to build PAT", BuildPAT(order), "TDT")
     ELSE Skip("TDT")
  /\ GenFrame

GenTDT ==
  /\ pc = "TDT"
  /\ IF HasTDT(order)
     THEN BuilderCall("failed to build TDT", BuildTDT(order), "item")
     ELSE Skip("item")
  /\ GenFrame

\* The head of "for _, item := range order.Items" and its cancellation check.
GenItemLoop ==
  /\ pc = "item"
  /\ IF itemIdx > Len(order.Items) THEN Skip("UNS")
     ELSE IF ctxDone THEN Return(ErrContextCancelled)
     ELSE Skip("LIN")
  /\ GenFrame

GenLIN ==
  /\ pc = "LIN"
  /\ BuilderCall("failed to build LIN", BuildLIN(order.Items[itemIdx]), "IMD")
  /\ GenFrame

GenIMD ==
  /\ pc = "IMD"
  /\ BuilderCall("failed to build IMD", BuildIMD(order.Items[itemIdx]), "QTY")
  /\ GenFrame

\* Variant: the quantity taken from the first item at every turn of the loop.
GenQTY_FirstItem ==
  /\ pc = "QTY"
  /\ BuilderCall("failed to build QTY", BuildQTY(order.Items[1]), "PRI")
  /\ GenFrame

GenQTY ==
  /\ pc = "QTY"
  /\ BuilderCall("failed to build QTY", BuildQTY(order.Items[itemIdx]), "PRI")
  /\ GenFrame

GenPRI ==
  /\ pc = "PRI"
  /\ BuilderCall("failed to build PRI", BuildPRI(order.Items[itemIdx]), "MOA")
  /\ GenFrame

GenMOA ==
  /\ pc = "MOA"
  /\ BuilderCall("failed to build MOA", BuildMOA(order.Items[itemIdx]), "itemDTM")
  /\ GenFrame

\* The optional item DTM, then the next iteration of the loop.
GenItemDTM ==
  /\ pc = "itemDTM"
  /\ IF ~IsZero(order.Items[itemIdx].DeliveryDate)
     THEN IF ctxDone
          THEN Return(Wrap("failed to build item DTM", ErrContextCancelled))
          ELSE LET r == writeSegment(gen, BuildDTM(order.Items[itemIdx].DeliveryDate,
                                                   QualifierLineDeliveryDate), out, pool)
               IN IF r.err # NoError
                  THEN WriteFailed(r)
                  ELSE /\ out' = r.out
                       /\ pool' = r.pool
                       /\ segmentCount' = CountAfterWrite(foundUNH, segmentCount)
                       /\ itemIdx' = itemIdx + 1
                       /\ pc' = "item"
                       /\ UNCHANGED <<err, foundUNH>>
     ELSE /\ itemIdx' = itemIdx + 1
          /\ pc' = "item"
          /\ UNCHANGED <<out, err, segmentCount, foundUNH, pool>>
  /\ GenFrame

\* UNS is built in place, without a builder call.
GenUNS ==
  /\ pc = "UNS"
  /\ WriteAndCount(Segment(SegmentTagUNS, <<<<"S">>>>), "CNT")
  /\ GenFrame

GenCNT ==
  /\ pc = "CNT"
  /\ BuilderCall("failed to build CNT", BuildCNT(order), "MOATotal")
  /\ GenFrame

GenMOATotal ==
  /\ pc = "MOATotal"
  /\ BuilderCall("failed to build MOA total", BuildMOATotal(order), "UNT")
  /\ GenFrame

\* The trailers are written without counting them.
WriteTrailer(name, seg, next) ==
  IF ctxDone
  THEN Return(Wrap(name, ErrContextCancelled))
  ELSE LET r == writeSegment(gen, seg, out, pool)
       IN IF r.err # NoError
          THEN WriteFailed(r)
          ELSE /\ out' = r.out
               /\ pool' = r.pool
               /\ pc' = next
               /\ UNCHANGED <<err, segmentCount, foundUNH, itemIdx>>

GenUNT ==
  /\ pc = "UNT"
  /\ WriteTrailer("failed to build UNT", BuildUNT(order, segmentCount), "UNZ")
  /\ GenFrame

GenUNZ ==
  /\ pc = "UNZ"
  /\ WriteTrailer("failed to build UNZ", BuildUNZ(order, MessageCount), "done")
  /\ GenFrame

\* The caller cancels the context while Generate runs.
Cancel ==
  /\ pc \notin {"idle", "done", "listDone", "str", "strDone", "wrote"}
  /\ ~ctxDone
  /\ ctxDone' = TRUE
  /\ UNCHANGED <<gen, cfgRes, order, pc, itemIdx, segmentCount, foundUNH, out, err,
                 listOut, strSeg, strRes, pool, prev, calls>>

\* A second Generate call on the same generator and the same order, with a
\* writer of its own, after a call that ran to its return uncancelled.  The
\* generator's pool is the one the first call has left.
GenerateAgain ==
  /\ pc = "done"
  /\ ~prev.ran
  /\ ~ctxDone
  /\ prev' = [ran |-> TRUE, out |-> out, err |-> err]
  /\ \E cancelled \in BOOLEAN : StartCall(order, cancelled)
  /\ UNCHANGED <<gen, cfgRes, listOut, strSeg, strRes, pool, calls>>

(***************************************************************************)
(* Generate calls running at the same time on one generator, each with an  *)
(* order, a writer and a context of its own (none is cancelled).  A call   *)
(* is a frame: Generate's locals, the writer's content and the returned    *)
(* error.  writeSegment is taken in two steps, so that other calls run     *)
(* between the filling of the pooled builder and the Write.                *)
(***************************************************************************)
Callers == {1, 2}

Frame(o) ==
  [pc |-> "idle", order |-> o, itemIdx |-> 1, segmentCount |-> 0, foundUNH |-> FALSE,
   out |-> <<>>, err |-> NoError, held |-> 0,
   alone |-> [out |-> <<>>, err |-> NoError]]

\* Generate up to the first segment.
EnterFrame(o) ==
  IF Validate(o) # NoError
  THEN [Frame(o) EXCEPT !.err = Wrap("order validation failed", Validate(o)),
                        !.pc = "done"]
  ELSE [Frame(o) EXCEPT !.pc = "UNB"]

\* The "if" around the segment at the call's position.
PresentAt(c) ==
  CASE c.pc = "deliveryDTM" -> ~IsZero(c.order.DeliveryDate)
    [] c.pc = "CUX" -> c.order.Currency # <<>>
    [] c.pc = "buyerNAD" -> c.order.Buyer.Name # <<>>
    [] c.pc = "sellerNAD" -> c.order.Seller.Name # <<>>
    [] c.pc = "deliveryNAD" -> c.order.Delivery.Name # <<>>
    [] c.pc = "invoiceNAD" -> c.order.Invoice.Name # <<>>
    [] c.pc = "TOD" -> HasTOD(c.order)
    [] c.pc = "PAT" -> HasPAT(c.order)
    [] c.pc = "TDT" -> HasTDT(c.order)
    [] c.pc = "itemDTM" -> ~IsZero(c.order.Items[c.itemIdx].DeliveryDate)
    [] OTHER -> TRUE

\* The segment built at the call's position.
SegmentAt(g, c) ==
  CASE c.pc = "UNB" -> BuildUNB(c.order)
    [] c.pc = "UNH" -> BuildUNH(c.order)
    [] c.pc = "BGM" -> BuildBGM(c.order)
    [] c.pc = "DTM" -> BuildDTM(c.order.OrderDate, QualifierDocumentDate)
    [] c.pc = "deliveryDTM" ->
         BuildDTM(c.order.DeliveryDate,
                  IF c.order.DeliveryDateQualifier # <<>>
                  THEN c.order.DeliveryDateQualifier ELSE QualifierDeliveryDate)
    [] c.pc = "CUX" -> BuildCUX(c.order)
    [] c.pc = "buyerNAD" -> BuildNAD(g, PartyBuyer, c.order.Buyer)
    [] c.pc = "sellerNAD" -> BuildNAD(g, PartySeller, c.order.Seller)
    [] c.pc = "deliveryNAD" -> BuildNAD(g, PartyDelivery, c.order.Delivery)
    [] c.pc = "invoiceNAD" -> BuildNAD(g, PartyInvoice, c.order.Invoice)
    [] c.pc = "TOD" -> BuildTOD(c.order)
    [] c.pc = "PAT" -> BuildPAT(c.order)
    [] c.pc = "TDT" -> BuildTDT(c.order)
    [] c.pc = "LIN" -> BuildLIN(c.order.Items[c.itemIdx])
    [] c.pc = "IMD" -> BuildIMD(c.order.Items[c.itemIdx])
    [] c.pc = "QTY" -> BuildQTY(c.order.Items[c.itemIdx])
    [] c.pc = "PRI" -> BuildPRI(c.order.Items[c.itemIdx])
    [] c.pc = "MOA" -> BuildMOA(c.order.Items[c.itemIdx])
    [] c.pc = "itemDTM" ->
         BuildDTM(c.order.Items[c.itemIdx].DeliveryDate, QualifierLineDeliveryDate)
    [] c.pc = "UNS" -> Segment(SegmentTagUNS, <<<<"S">>>>)
    [] c.pc = "CNT" -> BuildCNT(c.order)
    [] c.pc = "MOATotal" -> BuildMOATotal(c.order)
    [] c.pc = "UNT" -> BuildUNT(c.order, c.segmentCount)
    [] c.pc = "UNZ" -> BuildUNZ(c.order, MessageCount)

\* The position after the one of the call.
NextPosition(c) ==
  CASE c.pc = "UNB" -> "UNH" [] c.pc = "UNH" -> "BGM" [] c.pc = "BGM" -> "DTM"
    [] c.pc = "DTM" -> "deliveryDTM" [] c.pc = "deliveryDTM" -> "CUX"
    [] c.pc = "CUX" -> "buyerNAD" [] c.pc = "buyerNAD" -> "sellerNAD"
    [] c.pc = "sellerNAD" -> "deliveryNAD" [] c.pc = "deliveryNAD" -> "invoiceNAD"
    [] c.pc = "invoiceNAD" -> "TOD" [] c.pc = "TOD" -> "PAT" [] c.pc = "PAT" -> "TDT"
    [] c.pc = "TDT" -> "item"
    [] c.pc = "item" -> IF c.itemIdx > Len(c.order.Items) THEN "UNS" ELSE "LIN"
    [] c.pc = "LIN" -> "IMD" [] c.pc = "IMD" -> "QTY" [] c.pc = "QTY" -> "PRI"
    [] c.pc = "PRI" -> "MOA" [] c.pc = "MOA" -> "itemDTM" [] c.pc = "itemDTM" -> "item"
    [] c.pc = "UNS" -> "CNT" [] c.pc = "CNT" -> "MOATotal" [] c.pc = "MOATotal" -> "UNT"
    [] c.pc = "UNT" -> "UNZ" [] c.pc = "UNZ" -> "done"

\* The call moved past its position, the range loop advanced after an item.
Advance(c) ==
  [c EXCEPT !.pc = NextPosition(c),
            !.itemIdx = IF c.pc = "itemDTM" THEN @ + 1 ELSE @]

\* The locals after the segment at the call's position is written.
Counted(c) ==
  CASE c.pc = "UNH" -> [c EXCEPT !.foundUNH = TRUE, !.segmentCount = 1]
    [] c.pc \in {"UNT", "UNZ"} -> c
    [] OTHER -> [c EXCEPT !.segmentCount = CountAfterWrite(c.foundUNH, c.segmentCount)]

\* One position of a call that runs alone: frame and pool after it.
SoloStep(g, c, p) ==
  IF c.pc = "item" \/ ~PresentAt(c)
  THEN [frame |-> Advance(c), pool |-> p]
  ELSE LET r == writeSegment(g, SegmentAt(g, c), c.out, p)
       IN IF r.err # NoError
          THEN [frame |-> [c EXCEPT !.err = r.err, !.pc = "done"], pool |-> r.pool]
          ELSE [frame |-> Advance(Counted([c EXCEPT !.out = r.out])), pool |-> r.pool]

RECURSIVE RunAlone(_, _, _)
RunAlone(g, c, p) ==
  IF c.pc = "done" THEN c
  ELSE RunAlone(g, SoloStep(g, c, p).frame, SoloStep(g, c, p).pool)

Alone(g, o) == RunAlone(g, EnterFrame(o), NewPool)

\* A call starts; what it writes and returns when it runs alone on a
\* generator of its own is noted in its frame.
CallStart(i) ==
  /\ calls[i].pc = "idle"
  /\ \E o \in ConcurrentOrders(i) :
       calls' = [calls EXCEPT ![i] =
                   [EnterFrame(o) EXCEPT !.alone = [out |-> Alone(gen, o).out,
                                                    err |-> Alone(gen, o).err]]]
  /\ UNCHANGED pool

\* A position without a segment: the loop head or an "if" that is false.
CallSkip(i) ==
  /\ calls[i].pc \notin {"idle", "done"}
  /\ calls[i].held = 0
  /\ calls[i].pc = "item" \/ ~PresentAt(calls[i])
  /\ calls' = [calls EXCEPT ![i] = Advance(@)]
  /\ UNCHANGED pool

\* The builder call and writeSegment up to the Write.
CallFill(i) ==
  /\ calls[i].pc \notin {"idle", "done", "item"}
  /\ calls[i].held = 0
  /\ PresentAt(calls[i])
  /\ \E b \in PoolCandidates(pool) :
       LET f == FillBuilder(gen, SegmentAt(gen, calls[i]), pool, b)
       IN /\ pool' = f.pool
          /\ calls' = [calls EXCEPT ![i] =
                         IF f.err # NoError
                         THEN [@ EXCEPT !.err = f.err, !.pc = "done"]
                         ELSE [@ EXCEPT !.held = b]]

\* The Write, the deferred Put and the statements up to the next segment.
CallFlush(i) ==
  /\ calls[i].held # 0
  /\ LET c == calls[i]
         r == FlushBuilder(SegmentAt(gen, c), c.out, pool, c.held)
     IN /\ pool' = r.pool
        /\ calls' = [calls EXCEPT ![i] =
                       Advance(Counted([c EXCEPT !.out = r.out, !.held = 0]))]

CallStep(i) == CallStart(i) \/ CallSkip(i) \/ CallFill(i) \/ CallFlush(i)

\* The separators handed to a WithCustomSeparators call that runs while a
\* Generate call is under way: element and component separator exchanged,
\* and a terminator equal to the element separator.
ReconfigureArgs ==
  {<<<<"'">>, <<":">>, <<"+">>, <<".">>, <<"?">>>>,
   <<<<"+">>, <<"+">>, <<":">>, <<".">>, <<"?">>>>}

\* WithCustomSeparators called on the generator of a running Generate call.
\* Neither method takes a lock.  The whole call is one step here, placed
\* between any two steps of the Generate call; interleavings of the single
\* assignments add behaviours to these.
CallWithCustomSeparators ==
  /\ cfgRes = "none"
  /\ calls[1].pc \notin {"idle", "done"}
  /\ \E a \in ReconfigureArgs :
       LET g == [segmentTerminator |-> a[1], elementSeparator |-> a[2],
                 componentSeparator |-> a[3], decimalMark |-> a[4],
                 releaseCharacter |-> a[5]]
       IN /\ gen' = g
          /\ cfgRes' = validateSeparators(g)
  /\ UNCHANGED <<order, ctxDone, pc, itemIdx, segmentCount, foundUNH, out, err,
                 listOut, strSeg, strRes, pool, prev, calls>>

(***************************************************************************)
(* The list-building generator variant (second program of main.go): no     *)
(* validation, no escaping, fixed separators, %v for the amounts.          *)
(***************************************************************************)
StringPlain(s) == s.Tag \o <<"+">> \o Join(s.Elements, <<"+">>) \o <<"'">>

createUNB(o) == BuildUNB(o)
createUNH(o) == BuildUNH(o)
createBGM(o) == BuildBGM(o)
createDTM(date, qualifier) == BuildDTM(date, qualifier)
createCUX(o) == BuildCUX(o)
createNAD(partyQualifier, address) == BuildNAD(DefaultGenerator, partyQualifier, address)
createTOD(o) == BuildTOD(o)
createPAT(o) == BuildPAT(o)
createTDT(o) == BuildTDT(o)
createLIN(item) == BuildLIN(item)
createIMD(item) == BuildIMD(item)

createQTY(item) ==
  LET uom == IF item.UnitOfMeasure = <<>> THEN <<"P", "C", "E">> ELSE item.UnitOfMeasure
  IN Segment(SegmentTagQTY, <<<<"2", "1">> \o Colon \o FormatV(item.Quantity) \o Colon \o uom>>)

createPRI(item) ==
  Segment(SegmentTagPRI, <<<<"A", "A", "A">> \o Colon \o FormatV(item.UnitPrice)>>)

createMOA(item) ==
  Segment(SegmentTagMOA, <<<<"2", "0", "3">> \o Colon \o FormatV(item.Amount)>>)

createCNT(o) == Segment(SegmentTagCNT, <<<<"2">> \o Colon \o Itoa(o.TotalLines)>>)

createMOATotal(o) ==
  Segment(SegmentTagMOA, <<<<"1", "2", "8">> \o Colon \o FormatV(o.TotalAmount)>>)

\* The loop of createUNT from segment i on; it stops at a UNT segment.
RECURSIVE CountSegments(_, _, _)
CountSegments(segments, i, count) ==
  IF i > Len(segments) THEN count
  ELSE IF segments[i].Tag = SegmentTagUNH THEN CountSegments(segments, i + 1, 1)
  ELSE IF segments[i].Tag = SegmentTagUNT THEN count
  ELSE CountSegments(segments, i + 1, count + 1)

createUNT(o, segments) ==
  Segment(SegmentTagUNT, <<Itoa(CountSegments(segments, 1, 0)), o.MessageRefNumber>>)

\* messageCount := 1, then messageCount++ for every UNH in the list.
CountMessages(segments) ==
  1 + Cardinality({i \in 1..Len(segments) : segments[i].Tag = SegmentTagUNH})

createUNZ(o, segments) ==
  Segment(SegmentTagUNZ, <<Itoa(CountMessages(segments)), o.InterchangeControlRef>>)

RECURSIVE ListItems(_, _)
ListItems(items, i) ==
  IF i > Len(items) THEN <<>>
  ELSE <<createLIN(items[i]), createIMD(items[i]), createQTY(items[i]),
         createPRI(items[i]), createMOA(items[i])>>
       \o (IF ~IsZero(items[i].DeliveryDate)
           THEN <<createDTM(items[i].DeliveryDate, <<"6", "4">>)>> ELSE <<>>)
       \o ListItems(items, i + 1)

GenerateListSegments(o) ==
  LET body ==
        <<createUNB(o), createUNH(o), createBGM(o),
          createDTM(o.OrderDate, <<"1", "3", "7">>)>>
        \o (IF o.DeliveryDate # ZeroTime
            THEN <<createDTM(o.DeliveryDate,
                             IF o.DeliveryDateQualifier # <<>>
                             THEN o.DeliveryDateQualifier ELSE <<"2">>)>>
            ELSE <<>>)
        \o (IF o.Currency # <<>> THEN <<createCUX(o)>> ELSE <<>>)
        \o (IF o.Buyer.Name # <<>> THEN <<createNAD(<<"B", "Y">>, o.Buyer)>> ELSE <<>>)
        \o (IF o.Seller.Name # <<>> THEN <<createNAD(<<"S", "E">>, o.Seller)>> ELSE <<>>)
        \o (IF o.Delivery.Name # <<>> THEN <<createNAD(<<"D", "P">>, o.Delivery)>> ELSE <<>>)
        \o (IF o.Invoice.Name # <<>> THEN <<createNAD(<<"I", "V">>, o.Invoice)>> ELSE <<>>)
        \o (IF o.DeliveryTerms # <<>> \/ o.DeliveryTermsCode # <<>>
            THEN <<createTOD(o)>> ELSE <<>>)
        \o (IF o.PaymentTerms # <<>> \/ o.PaymentTermsCode # <<>>
            THEN <<createPAT(o)>> ELSE <<>>)
        \o (IF o.TransportMode # <<>> \/ o.TransportModeCode # <<>>
            THEN <<createTDT(o)>> ELSE <<>>)
        \o ListItems(o.Items, 1)
        \o <<Segment(SegmentTagUNS, <<<<"S">>>>), createCNT(o), createMOATotal(o)>>
      withUNT == Append(body, createUNT(o, body))
  IN Append(withUNT, createUNZ(o, withUNT))

\* Generate(order) of the list-building variant: the segments and the text
\* of each, in the order they are written to the result.
GenerateList ==
  /\ pc = "idle"
  /\ \E o \in Orders :
       /\ order' = o
       /\ listOut' = [i \in 1..Len(GenerateListSegments(o)) |->
                        [seg |-> GenerateListSegments(o)[i],
                         text |-> StringPlain(GenerateListSegments(o)[i]) \o <<"\n">>]]
  /\ pc' = "listDone"
  /\ UNCHANGED <<gen, cfgRes, ctxDone, itemIdx, segmentCount, foundUNH, out, err,
                 strSeg, strRes, pool, prev, calls>>

\* The list-building Generate called on the order that the streaming
\* Generate has just serialized without an error.
GenerateListOnOrder ==
  /\ pc = "done"
  /\ err = NoError
  /\ listOut' = [i \in 1..Len(GenerateListSegments(order)) |->
                   [seg |-> GenerateListSegments(order)[i],
                    text |-> StringPlain(GenerateListSegments(order)[i]) \o <<"\n">>]]
  /\ pc' = "both"
  /\ UNCHANGED <<gen, cfgRes, order, ctxDone, itemIdx, segmentCount, foundUNH, out, err,
                 strSeg, strRes, pool, prev, calls>>

(***************************************************************************)
(* Calls of EDISegment.String and writeSegment on a segment of any         *)
(* content, under a valid separator configuration.                         *)
(***************************************************************************)
StrOver(alphabet, n) == UNION {[1..k -> alphabet] : k \in 0..n}

StringGenerators ==
  {DefaultGenerator,
   [segmentTerminator |-> <<"~">>, elementSeparator |-> <<"*">>,
    componentSeparator |-> <<"^">>, decimalMark |-> <<",">>,
    releaseCharacter |-> <<"!">>]}

Specials(g) == {g.elementSeparator[1], g.segmentTerminator[1], g.releaseCharacter[1]}

\* The overhead of a one-element segment: the tag, a separator, the terminator.
TagOverhead == Len(SegmentTagUNS) + 2

StringSegments(g) ==
  LET alphabet == {"a"} \cup Specials(g)
      short == {<<e>> : e \in StrOver(alphabet, MaxElemLen)}
      pairs == {<<e1, e2>> : e1 \in StrOver(alphabet, 1), e2 \in StrOver(alphabet, 1)}
      long == {<<Repeat("a", n) \o tail>> :
                 n \in (MaxSegmentLength - TagOverhead - 5)..(MaxSegmentLength - TagOverhead + 2),
                 tail \in StrOver(Specials(g), 1)}
  IN {Segment(SegmentTagUNS, es) : es \in {<<>>} \cup short \cup pairs \cup long}

CallString ==
  /\ pc = "str"
  /\ strRes' = String(strSeg, gen.elementSeparator, gen.segmentTerminator,
                      gen.releaseCharacter)
  /\ pc' = "strDone"
  /\ UNCHANGED <<gen, cfgRes, order, ctxDone, itemIdx, segmentCount, foundUNH, out, err,
                 listOut, strSeg, pool, prev, calls>>

CallWriteSegment ==
  /\ pc = "strDone"
  /\ out' = writeSegment(gen, strSeg, out, pool).out
  /\ err' = writeSegment(gen, strSeg, out, pool).err
  /\ pool' = writeSegment(gen, strSeg, out, pool).pool
  /\ pc' = "wrote"
  /\ UNCHANGED <<gen, cfgRes, order, ctxDone, itemIdx, segmentCount, foundUNH, listOut,
                 strSeg, strRes, prev, calls>>

(***************************************************************************)
(* Specifications.                                                         *)
(***************************************************************************)
\* No earlier Generate call on the order.
NoPrev == [ran |-> FALSE, out |-> <<>>, err |-> NoError]

InitCommonLocals ==
  /\ order = MkOrder(BaseFlags)
  /\ ctxDone = FALSE
  /\ itemIdx = 1
  /\ segmentCount = 0
  /\ foundUNH = FALSE
  /\ out = <<>>
  /\ err = NoError
  /\ listOut = <<>>
  /\ strRes = [text |-> <<>>, err |-> NoError]

InitCommon ==
  /\ InitCommonLocals
  /\ cfgRes = "none"
  /\ pool = NewPool
  /\ prev = NoPrev
  /\ calls = <<>>

\* A generator fresh from NewEDIFACTOrderGenerator, no call running.
Init ==
  /\ InitCommon
  /\ gen = DefaultGenerator
  /\ pc = "idle"
  /\ strSeg = Segment(<<>>, <<>>)

Next ==
  \/ GenerateStart
  \/ GenUNB \/ GenUNH \/ GenBGM \/ GenDTM \/ GenDeliveryDTM \/ GenCUX
  \/ GenBuyerNAD \/ GenSellerNAD \/ GenDeliveryNAD \/ GenInvoiceNAD
  \/ GenTOD \/ GenPAT \/ GenTDT
  \/ GenItemLoop \/ GenLIN \/ GenIMD \/ GenQTY \/ GenPRI \/ GenMOA \/ GenItemDTM
  \/ GenUNS \/ GenCNT \/ GenMOATotal \/ GenUNT \/ GenUNZ
  \/ Cancel
  \/ GenerateList

Spec == Init /\ [][Next]_vars

\* Generate called a second time on the same order.
NextRerun == Next \/ GenerateAgain

SpecRerun == Init /\ [][NextRerun]_vars

\* Both Generate variants on one order, the streaming one first.
NextVariants == Next \/ GenerateListOnOrder

SpecVariants == Init /\ [][NextVariants]_vars

\* Two Generate calls at once on a generator fresh from its constructor.
InitConcurrent ==
  /\ InitCommonLocals
  /\ cfgRes = "none"
  /\ pool = NewPool
  /\ prev = NoPrev
  /\ gen = DefaultGenerator
  /\ pc = "idle"
  /\ strSeg = Segment(<<>>, <<>>)
  /\ calls = [i \in Callers |-> Frame(MkOrder(BaseFlags))]

NextConcurrent ==
  /\ \E i \in Callers : CallStep(i)
  /\ UNCHANGED <<gen, cfgRes, order, ctxDone, pc, itemIdx, segmentCount, foundUNH,
                 out, err, listOut, strSeg, strRes, prev>>

SpecConcurrent == InitConcurrent /\ [][NextConcurrent]_vars

\* One Generate call and a WithCustomSeparators call on the same generator.
NextReconfigure ==
  \/ /\ CallStep(1)
     /\ UNCHANGED <<gen, cfgRes, order, ctxDone, pc, itemIdx, segmentCount, foundUNH,
                    out, err, listOut, strSeg, strRes, prev>>
  \/ CallWithCustomSeparators

SpecReconfigure == InitConcurrent /\ [][NextReconfigure]_vars

\* Reconfiguration of an idle generator.
NextConfig == WithCustomSeparators

SpecConfig == Init /\ [][NextConfig]_vars

\* EDISegment.String and writeSegment as functions of their arguments.
InitString ==
  /\ InitCommon
  /\ gen \in StringGenerators
  /\ strSeg \in StringSegments(gen)
  /\ pc = "str"

NextString == CallString \/ CallWriteSegment

SpecString == InitString /\ [][NextString]_vars

(***************************************************************************)
(* Reading the output back.                                                *)
(***************************************************************************)
GeneratePcs ==
  {"UNB", "UNH", "BGM", "DTM", "deliveryDTM", "CUX", "buyerNAD", "sellerNAD",
   "deliveryNAD", "invoiceNAD", "TOD", "PAT", "TDT", "item", "LIN", "IMD", "QTY",
   "PRI", "MOA", "itemDTM", "UNS", "CNT", "MOATotal", "UNT", "UNZ", "done"}

GenerateSucceeded == pc = "done" /\ err = NoError
GenerateFailed == pc = "done" /\ err # NoError

PositionsOf(w, tag) == {i \in 1..Len(w) : w[i].seg.Tag = tag}
CountOf(w, tag) == Cardinality(PositionsOf(w, tag))
TheOne(S) == CHOOSE x \in S : TRUE
MinOf(S) == CHOOSE x \in S : \A y \in S : x <= y

\* The first element of the i-th segment written.
FirstElement(w, i) == w[i].seg.Elements[1]

IsPrefixOf(a, b) == Len(a) <= Len(b) /\ \A i \in 1..Len(a) : a[i] = b[i]

\* The part of s before its first ":" (all of s when it has none).
UntilColon(s) ==
  LET cs == {i \in 1..Len(s) : s[i] = ":"}
  IN IF cs = {} THEN s ELSE SubSeq(s, 1, MinOf(cs) - 1)

(***************************************************************************)
(* C1: when Generate succeeds, the first element of the one UNT segment    *)
(* is the number of segments written from UNH up to the segment before     *)
(* UNT, whichever optional segments the order carries.                     *)
(***************************************************************************)
C1_TrailerCount ==
  GenerateSucceeded =>
    /\ CountOf(out, SegmentTagUNH) = 1
    /\ CountOf(out, SegmentTagUNT) = 1
    /\ LET h == TheOne(PositionsOf(out, SegmentTagUNH))
           u == TheOne(PositionsOf(out, SegmentTagUNT))
       IN /\ h < u
          /\ FirstElement(out, u) = NatDigits(u - h)
          /\ out[u].text = SegmentTagUNT \o <<"+">> \o NatDigits(u - h) \o <<"+">>
                             \o order.MessageRefNumber \o <<"'", "\n">>

C1_Witness ==
  /\ GenerateSucceeded
  /\ Len(order.Items) = 2
  /\ ~IsZero(order.Items[1].DeliveryDate)
  /\ IsZero(order.Items[2].DeliveryDate)
  /\ order.Delivery.Name # <<>>
  /\ order.TransportMode # <<>>
  /\ FirstElement(out, TheOne(PositionsOf(out, SegmentTagUNT))) = <<"2", "2">>

(***************************************************************************)
(* C2: an element holding the separator, the terminator or the release     *)
(* character is read back unchanged from the text String returns, by a     *)
(* tokenizer that takes release+char as the literal char.                  *)
(***************************************************************************)
RECURSIVE Tokens(_, _, _, _, _, _, _)
Tokens(text, i, cur, acc, sep, term, rel) ==
  IF i > Len(text) THEN Append(acc, cur)
  ELSE IF text[i] = rel /\ i < Len(text)
       THEN Tokens(text, i + 2, Append(cur, text[i + 1]), acc, sep, term, rel)
  ELSE IF text[i] = sep THEN Tokens(text, i + 1, <<>>, Append(acc, cur), sep, term, rel)
  ELSE IF text[i] = term THEN Append(acc, cur)
  ELSE Tokens(text, i + 1, Append(cur, text[i]), acc, sep, term, rel)

HasSpecial(e) == \E i \in 1..Len(e) : e[i] \in Specials(gen)

ShortSpecialSegment ==
  /\ Len(strSeg.Elements) > 0
  /\ \A k \in 1..Len(strSeg.Elements) : Len(strSeg.Elements[k]) <= MaxElemLen
  /\ \E k \in 1..Len(strSeg.Elements) : HasSpecial(strSeg.Elements[k])

C2_RoundTrip ==
  (pc = "strDone" /\ strRes.err = NoError /\ ShortSpecialSegment) =>
    Tokens(strRes.text, 1, <<>>, <<>>, gen.elementSeparator[1],
           gen.segmentTerminator[1], gen.releaseCharacter[1])
      = <<strSeg.Tag>> \o strSeg.Elements

(***************************************************************************)
(* C3: an order that is valid but for TotalLines # len(Items) makes        *)
(* Generate return the TotalLines validation error with nothing written;   *)
(* nothing is ever written for an order that Validate rejects.             *)
(***************************************************************************)
OtherwiseValid(o) == Validate([o EXCEPT !.TotalLines = Len(o.Items)]) = NoError

C3_ValidationGating ==
  pc \in GeneratePcs =>
    /\ (order.TotalLines # Len(order.Items) /\ OtherwiseValid(order)) =>
         /\ pc = "done"
         /\ out = <<>>
         /\ err # NoError
         /\ ~ctxDone =>
              err = Wrap("order validation failed", ValidationError("EDIOrder.TotalLines"))
    /\ Validate(order) # NoError => (pc = "done" /\ out = <<>> /\ err # NoError)

C3_Witness ==
  /\ pc = "done"
  /\ ~ctxDone
  /\ Len(order.Items) = 2
  /\ order.TotalLines = 3
  /\ order.Invoice.Name # <<>>
  /\ err.cause = "ValidationError"
  /\ err.field = "EDIOrder.TotalLines"
  /\ out = <<>>

(***************************************************************************)
(* C4: in both generator variants the first element of UNZ is 1.           *)
(***************************************************************************)
C4_MessageCountIsOne ==
  /\ GenerateSucceeded =>
       /\ out[Len(out)].seg.Tag = SegmentTagUNZ
       /\ FirstElement(out, Len(out)) = <<"1">>
  /\ pc = "listDone" =>
       /\ listOut[Len(listOut)].seg.Tag = SegmentTagUNZ
       /\ FirstElement(listOut, Len(listOut)) = <<"1">>

(***************************************************************************)
(* C5: when Generate succeeds there is one TOD, PAT, TDT segment for each  *)
(* of the three terms with a free-text or a coded field set and none for   *)
(* the others; they lie after every NAD and before the first LIN, in the   *)
(* order TOD, PAT, TDT.                                                    *)
(***************************************************************************)
TermSet(text, code) == ~(text = <<>> /\ code = <<>>)
Expect(b) == IF b THEN 1 ELSE 0

TermPositions(w) ==
  PositionsOf(w, SegmentTagTOD) \cup PositionsOf(w, SegmentTagPAT)
    \cup PositionsOf(w, SegmentTagTDT)

C5_ConditionalInclusion ==
  GenerateSucceeded =>
    /\ CountOf(out, SegmentTagTOD)
         = Expect(TermSet(order.DeliveryTerms, order.DeliveryTermsCode))
    /\ CountOf(out, SegmentTagPAT)
         = Expect(TermSet(order.PaymentTerms, order.PaymentTermsCode))
    /\ CountOf(out, SegmentTagTDT)
         = Expect(TermSet(order.TransportMode, order.TransportModeCode))
    /\ \A t \in TermPositions(out) :
         /\ \A n \in PositionsOf(out, SegmentTagNAD) : n < t
         /\ \A l \in PositionsOf(out, SegmentTagLIN) : t < l
    /\ \A a \in PositionsOf(out, SegmentTagTOD) :
         \A b \in PositionsOf(out, SegmentTagPAT) \cup PositionsOf(out, SegmentTagTDT) :
           a < b
    /\ \A a \in PositionsOf(out, SegmentTagPAT) :
         \A b \in PositionsOf(out, SegmentTagTDT) : a < b

C5_Witness ==
  /\ GenerateSucceeded
  /\ order.DeliveryTerms = <<>>
  /\ order.DeliveryTermsCode # <<>>
  /\ order.PaymentTerms = <<>>
  /\ order.PaymentTermsCode = <<>>
  /\ order.TransportModeCode # <<>>
  /\ CountOf(out, SegmentTagTOD) = 1
  /\ CountOf(out, SegmentTagPAT) = 0
  /\ CountOf(out, SegmentTagTDT) = 1

(***************************************************************************)
(* C6: when a segment fails to serialize, Generate returns the error and   *)
(* the writer holds no output at all.                                      *)
(***************************************************************************)
C6_AllOrNothing ==
  (GenerateFailed /\ err.cause = "ErrSegmentTooLong") => out = <<>>

(***************************************************************************)
(* C7: String returns ErrSegmentTooLong and no text exactly when the text  *)
(* of the segment (tag, separators, elements as escaped, terminator) is    *)
(* longer than 1000; at 1000 the text is returned; writeSegment writes     *)
(* nothing for a segment that is too long.                                 *)
(***************************************************************************)
Occurrences(e, c) == Cardinality({i \in 1..Len(e) : e[i] = c})

\* The three passes put two release characters before a separator or a
\* terminator and one before a release character.
EscapedLength(e, g) ==
  Len(e) + 2 * Occurrences(e, g.elementSeparator[1])
         + 2 * Occurrences(e, g.segmentTerminator[1])
         + Occurrences(e, g.releaseCharacter[1])

RECURSIVE SumEscaped(_, _, _)
SumEscaped(elems, k, g) ==
  IF k > Len(elems) THEN 0
  ELSE EscapedLength(elems[k], g) + SumEscaped(elems, k + 1, g)

SegmentTextLength(seg, g) ==
  Len(seg.Tag) + 1 + SumEscaped(seg.Elements, 1, g)
    + (IF Len(seg.Elements) > 1 THEN Len(seg.Elements) - 1 ELSE 0) + 1

C7_LengthLimit ==
  LET n == SegmentTextLength(strSeg, gen)
  IN /\ pc \in {"strDone", "wrote"} =>
          /\ (strRes.err = ErrSegmentTooLong) <=> (n > 1000)
          /\ strRes.err \in {ErrSegmentTooLong, NoError}
          /\ strRes.err = ErrSegmentTooLong => strRes.text = <<>>
          /\ strRes.err = NoError => Len(strRes.text) = n
     /\ pc = "wrote" =>
          /\ n > 1000 => (out = <<>> /\ err = ErrSegmentTooLong)
          /\ n <= 1000 =>
               /\ err = NoError
               /\ Len(out) = 1
               /\ out[1].text = strRes.text \o <<"\n">>

C7_Witness ==
  /\ pc = "wrote"
  /\ SegmentTextLength(strSeg, gen) = 1001
  /\ HasSpecial(strSeg.Elements[1])
  /\ strRes = [text |-> <<>>, err |-> ErrSegmentTooLong]
  /\ out = <<>>

C7_WitnessFits ==
  /\ pc = "wrote"
  /\ SegmentTextLength(strSeg, gen) = 1000
  /\ Len(out) = 1
  /\ Len(out[1].text) = 1001

(***************************************************************************)
(* C8: WithCustomSeparators succeeds exactly when the terminator, the      *)
(* element separator, the component separator and the release character    *)
(* are four pairwise-distinct single characters, returns                   *)
(* ErrInvalidSeparator otherwise, and never crashes.                       *)
(***************************************************************************)
FourDistinctCharacters(g) ==
  /\ Len(g.segmentTerminator) = 1
  /\ Len(g.elementSeparator) = 1
  /\ Len(g.componentSeparator) = 1
  /\ Len(g.releaseCharacter) = 1
  /\ Cardinality({g.segmentTerminator, g.elementSeparator, g.componentSeparator,
                  g.releaseCharacter}) = 4

C8_SeparatorConfiguration ==
  cfgRes # "none" =>
    /\ cfgRes # "panic"
    /\ FourDistinctCharacters(gen) => cfgRes = "ok"
    /\ ~FourDistinctCharacters(gen) => cfgRes = "ErrInvalidSeparator"

(***************************************************************************)
(* C9: when Generate returns the cancelled error, nothing of what it       *)
(* wrote before the cancellation is left in the writer.                    *)
(***************************************************************************)
C9_CancellationDiscards ==
  (GenerateFailed /\ err.cause = "ErrContextCancelled") => out = <<>>

(***************************************************************************)
(* C10: the segments are written in the fixed order UNB, UNH, BGM, DTM     *)
(* 137, [delivery DTM], [CUX], NAD BY, NAD SE, [NAD DP], [NAD IV], [TOD],  *)
(* [PAT], [TDT], the item groups, UNS, CNT, MOA 128, UNT, UNZ: what has    *)
(* been written is always a prefix of that sequence, all of it when        *)
(* Generate succeeds, one segment more at each write.                      *)
(***************************************************************************)
Label(seg) ==
  IF seg.Tag \in {SegmentTagDTM, SegmentTagNAD, SegmentTagMOA}
  THEN <<seg.Tag, UntilColon(seg.Elements[1])>>
  ELSE <<seg.Tag, <<>>>>

Labels(w) == [i \in 1..Len(w) |-> Label(w[i].seg)]

Opt(b, label) == IF b THEN <<label>> ELSE <<>>

RECURSIVE ExpectedItems(_, _)
ExpectedItems(items, k) ==
  IF k > Len(items) THEN <<>>
  ELSE <<<<SegmentTagLIN, <<>>>>, <<SegmentTagIMD, <<>>>>, <<SegmentTagQTY, <<>>>>,
         <<SegmentTagPRI, <<>>>>, <<SegmentTagMOA, <<"2", "0", "3">>>>>>
       \o Opt(~IsZero(items[k].DeliveryDate), <<SegmentTagDTM, <<"6", "4">>>>)
       \o ExpectedItems(items, k + 1)

ExpectedLabels(o) ==
  <<<<SegmentTagUNB, <<>>>>, <<SegmentTagUNH, <<>>>>, <<SegmentTagBGM, <<>>>>,
    <<SegmentTagDTM, <<"1", "3", "7">>>>>>
  \o Opt(~IsZero(o.DeliveryDate),
         <<SegmentTagDTM,
           IF o.DeliveryDateQualifier = <<>> THEN <<"2">> ELSE o.DeliveryDateQualifier>>)
  \o Opt(o.Currency # <<>>, <<SegmentTagCUX, <<>>>>)
  \o <<<<SegmentTagNAD, <<"B", "Y">>>>, <<SegmentTagNAD, <<"S", "E">>>>>>
  \o Opt(o.Delivery.Name # <<>>, <<SegmentTagNAD, <<"D", "P">>>>)
  \o Opt(o.Invoice.Name # <<>>, <<SegmentTagNAD, <<"I", "V">>>>)
  \o Opt(TermSet(o.DeliveryTerms, o.DeliveryTermsCode), <<SegmentTagTOD, <<>>>>)
  \o Opt(TermSet(o.PaymentTerms, o.PaymentTermsCode), <<SegmentTagPAT, <<>>>>)
  \o Opt(TermSet(o.TransportMode, o.TransportModeCode), <<SegmentTagTDT, <<>>>>)
  \o ExpectedItems(o.Items, 1)
  \o <<<<SegmentTagUNS, <<>>>>, <<SegmentTagCNT, <<>>>>,
       <<SegmentTagMOA, <<"1", "2", "8">>>>, <<SegmentTagUNT, <<>>>>,
       <<SegmentTagUNZ, <<>>>>>>

C10_EmissionOrder ==
  pc \in GeneratePcs =>
    /\ IsPrefixOf(Labels(out), ExpectedLabels(order))
    /\ GenerateSucceeded =>
         /\ Labels(out) = ExpectedLabels(order)
         /\ out[Len(out)].seg.Tag = SegmentTagUNZ

C10_Witness ==
  /\ GenerateSucceeded
  /\ Len(order.Items) = 2
  /\ order.DeliveryDateQualifier = <<>>
  /\ ~IsZero(order.DeliveryDate)
  /\ order.Currency # <<>>
  /\ order.Delivery.Name # <<>>
  /\ order.Invoice.Name # <<>>
  /\ order.DeliveryTerms # <<>>
  /\ order.PaymentTerms # <<>>
  /\ order.TransportMode # <<>>
  /\ IsZero(order.Items[1].DeliveryDate)
  /\ ~IsZero(order.Items[2].DeliveryDate)
  /\ Len(out) = 29

(***************************************************************************)
(* C11  Two runs of Generate, on the same order with the same generator    *)
(* and neither cancelled, hand the writer the same bytes and return the    *)
(* same error; what the first run leaves in the pooled builder never shows *)
(* in the second run, whose output stays a prefix of the first run's at    *)
(* every write.                                                            *)
(***************************************************************************)
Texts(w) == [i \in 1..Len(w) |-> w[i].text]

C11_Idempotence ==
  (pc \in GeneratePcs /\ prev.ran) =>
    /\ IsPrefixOf(Texts(out), Texts(prev.out))
    /\ (pc = "done" /\ ~ctxDone) =>
         /\ Texts(out) = Texts(prev.out)
         /\ err = prev.err

C11_Witness ==
  /\ pc = "done"
  /\ prev.ran
  /\ ~ctxDone
  /\ err = NoError
  /\ Len(order.Items) = 2
  /\ pool.free # {}
  /\ \E b \in pool.free : pool.builders[b] = out[Len(out)].text
  /\ Len(prev.out) = Len(out)
  /\ Len(out) > 20

(***************************************************************************)
(* C12  When Generate succeeds the first element of UNT is                 *)
(*   8 + [delivery date] + [currency] + [delivery party named]             *)
(*     + [invoice party named] + [TOD] + [PAT] + [TDT]                     *)
(*     + the sum over the items of 5 + [item delivery date].               *)
(* For the concrete scenario (currency set, buyer and seller only, two     *)
(* items without item delivery dates) the UNT count is 19 and the output   *)
(* has exactly 22 segments: UNB, the 19 counted ones, UNT and UNZ.         *)
(***************************************************************************)
RECURSIVE ItemSegmentCount(_, _)
ItemSegmentCount(items, k) ==
  IF k > Len(items) THEN 0
  ELSE 5 + Expect(~IsZero(items[k].DeliveryDate)) + ItemSegmentCount(items, k + 1)

ExpectedCount(o) ==
  8 + Expect(~IsZero(o.DeliveryDate)) + Expect(o.Currency # <<>>)
    + Expect(o.Delivery.Name # <<>>) + Expect(o.Invoice.Name # <<>>)
    + Expect(TermSet(o.DeliveryTerms, o.DeliveryTermsCode))
    + Expect(TermSet(o.PaymentTerms, o.PaymentTermsCode))
    + Expect(TermSet(o.TransportMode, o.TransportModeCode))
    + ItemSegmentCount(o.Items, 1)

ConcreteScenario(o) ==
  /\ o.Currency # <<>>
  /\ IsZero(o.DeliveryDate)
  /\ o.Delivery.Name = <<>>
  /\ o.Invoice.Name = <<>>
  /\ ~TermSet(o.DeliveryTerms, o.DeliveryTermsCode)
  /\ ~TermSet(o.PaymentTerms, o.PaymentTermsCode)
  /\ ~TermSet(o.TransportMode, o.TransportModeCode)
  /\ Len(o.Items) = 2
  /\ \A k \in 1..Len(o.Items) : IsZero(o.Items[k].DeliveryDate)

UNTCount(w) == FirstElement(w, TheOne(PositionsOf(w, SegmentTagUNT)))

C12_SegmentCountValue ==
  GenerateSucceeded =>
    /\ CountOf(out, SegmentTagUNT) = 1
    /\ UNTCount(out) = NatDigits(ExpectedCount(order))
    /\ ConcreteScenario(order) =>
         /\ UNTCount(out) = <<"1", "9">>
         /\ Len(out) = 22

C12_Witness ==
  /\ GenerateSucceeded
  /\ ConcreteScenario(order)
  /\ UNTCount(out) = <<"1", "9">>
  /\ Len(out) = 22

\* The statement with the scenario's segment total as 21.
C12_TwentyOneSegments ==
  GenerateSucceeded =>
    /\ CountOf(out, SegmentTagUNT) = 1
    /\ UNTCount(out) = NatDigits(ExpectedCount(order))
    /\ ConcreteScenario(order) =>
         /\ UNTCount(out) = <<"1", "9">>
         /\ Len(out) = 21

(***************************************************************************)
(* C13  Every error Generate returns preserves its cause, and a            *)
(* segment-too-long failure raised while a segment is written is returned  *)
(* wrapped with that segment's name, as a builder failure is.              *)
(***************************************************************************)
C13_ErrorWrapping ==
  GenerateFailed =>
    /\ err.cause \in {"ValidationError", "ErrSegmentTooLong", "ErrContextCancelled"}
    /\ err.cause = "ErrSegmentTooLong" => err.wraps # <<>>

(***************************************************************************)
(* C14  Of several Generate calls running at the same time on one          *)
(* generator, each with its own order and writer, every one hands its      *)
(* writer what it hands it when it runs alone on a generator of its own    *)
(* and returns the same error: the output is a prefix of the lone run's    *)
(* while the call runs and equal to it at the return.                      *)
(***************************************************************************)
C14_ConcurrentAssembly ==
  \A i \in Callers :
    calls[i].pc # "idle" =>
      /\ IsPrefixOf(Texts(calls[i].out), Texts(calls[i].alone.out))
      /\ calls[i].pc = "done" =>
           /\ Texts(calls[i].out) = Texts(calls[i].alone.out)
           /\ calls[i].err = calls[i].alone.err

\* Both calls have returned without error after holding pooled builders at
\* the same time.
C14_Witness ==
  /\ \A i \in Callers : calls[i].pc = "done" /\ calls[i].err = NoError
  /\ calls[1].order # calls[2].order
  /\ Len(pool.builders) = 2
  /\ \A b \in 1..2 : pool.builders[b] # <<>>
  /\ Len(calls[1].out) > 15

(***************************************************************************)
(* The positions of a call running alone are the steps of Generate: each   *)
(* step of an uncancelled Generate is the position's SoloStep.             *)
(***************************************************************************)
CurrentFrame ==
  [pc |-> pc, order |-> order, itemIdx |-> itemIdx, segmentCount |-> segmentCount,
   foundUNH |-> foundUNH, out |-> out, err |-> err, held |-> 0,
   alone |-> [out |-> <<>>, err |-> NoError]]

SoloStepIsGenerateStep ==
  [][(pc \in GeneratePcs \ {"done"} /\ ~ctxDone /\ ~ctxDone')
       => /\ CurrentFrame' = SoloStep(gen, CurrentFrame, pool).frame
          /\ pool' = SoloStep(gen, CurrentFrame, pool).pool]_vars

(***************************************************************************)
(* C15  An invoice address with a name and without address lines, or with  *)
(* a line longer than 35, makes Generate fail validation exactly as a      *)
(* delivery address in that state does; a delivery or invoice address      *)
(* without a name is never the cause of a validation error.                *)
(***************************************************************************)
AddressBroken(a) ==
  a.Lines = <<>> \/ \E i \in 1..Len(a.Lines) : Len(a.Lines[i]) > MaxFieldLength

FailedValidationOrCancelledAtCall ==
  /\ pc = "done"
  /\ out = <<>>
  /\ err.cause = "ValidationError" \/ err = ErrContextCancelled

C15_OptionalAddressValidation ==
  pc \in GeneratePcs =>
    /\ (order.Delivery.Name # <<>> /\ AddressBroken(order.Delivery))
         => FailedValidationOrCancelledAtCall
    /\ (order.Invoice.Name # <<>> /\ AddressBroken(order.Invoice))
         => FailedValidationOrCancelledAtCall
    /\ (order.Delivery.Name = <<>> /\ err.cause = "ValidationError")
         => err.wraps # <<"order validation failed", "delivery validation failed">>

(***************************************************************************)
(* C16  A Generate call whose context is cancelled when it is made returns *)
(* the cancelled error, not a validation error, and writes nothing,        *)
(* whether the order is valid or not.  Once the context is cancelled the   *)
(* loop head of an item still to come returns the cancelled error without  *)
(* a write, no item segment is written any more, and the error the call    *)
(* returns has the cancelled error as its cause, which no validation or    *)
(* serialization error has.                                                *)
(***************************************************************************)
ItemTags ==
  {SegmentTagLIN, SegmentTagIMD, SegmentTagQTY, SegmentTagPRI, SegmentTagMOA,
   SegmentTagDTM}

C16_CancellationPoints ==
  /\ [][(pc = "idle" /\ pc' \in GeneratePcs /\ ctxDone')
          => (pc' = "done" /\ err' = ErrContextCancelled /\ out' = <<>>)]_vars
  /\ [][(pc = "item" /\ ctxDone /\ itemIdx <= Len(order.Items))
          => (pc' = "done" /\ err'.cause = "ErrContextCancelled" /\ out' = out)]_vars
  /\ [][(pc \in GeneratePcs /\ ctxDone /\ out' # out)
          => (Len(out') = Len(out) + 1 /\ out'[Len(out')].seg.Tag \notin ItemTags)]_vars
  /\ []((pc = "done" /\ ctxDone) => err.cause = "ErrContextCancelled")

\* Cancelled between the first and the second item: the first item's
\* segments are written, none of the second.
C16_Witness ==
  /\ pc = "done"
  /\ ctxDone
  /\ err = ErrContextCancelled
  /\ Len(order.Items) = 2
  /\ itemIdx = 2
  /\ CountOf(out, SegmentTagLIN) = 1
  /\ out[Len(out)].seg.Tag \in ItemTags

(***************************************************************************)
(* C17  Validation reports one error, that of the first failing check in   *)
(* the order: sender ID, receiver ID, control reference, message           *)
(* reference, order number, order date, buyer address, seller address,     *)
(* delivery address (when named), item list empty or too large, the items  *)
(* in index order, TotalLines.  An order that fails several checks is      *)
(* refused with the error of the earliest one, and an order is refused     *)
(* with a validation error only when one of them fails.                    *)
(***************************************************************************)
FieldBroken(x) == x = <<>> \/ Len(x) > MaxFieldLength

ItemBroken(i) ==
  \/ i.LineNumber <= 0
  \/ FieldBroken(i.BuyerItemCode)
  \/ i.Quantity <= 0
  \/ i.UnitPrice < 0

\* The checks in the order above, numbered: 1..10, then 10 + k for the
\* k-th item, then TotalLines.
TotalLinesCheck(o) == 11 + Len(o.Items)

FailingChecks(o) ==
  {c \in 1..TotalLinesCheck(o) :
     \/ c = 1 /\ FieldBroken(o.InterchangeSenderID)
     \/ c = 2 /\ FieldBroken(o.InterchangeReceiverID)
     \/ c = 3 /\ o.InterchangeControlRef = <<>>
     \/ c = 4 /\ o.MessageRefNumber = <<>>
     \/ c = 5 /\ FieldBroken(o.OrderNumber)
     \/ c = 6 /\ IsZero(o.OrderDate)
     \/ c = 7 /\ (o.Buyer.Name = <<>> \/ AddressBroken(o.Buyer))
     \/ c = 8 /\ (o.Seller.Name = <<>> \/ AddressBroken(o.Seller))
     \/ c = 9 /\ o.Delivery.Name # <<>> /\ AddressBroken(o.Delivery)
     \/ c = 10 /\ (Len(o.Items) = 0 \/ Len(o.Items) > MaxItemCount)
     \/ c > 10 /\ c < TotalLinesCheck(o) /\ ItemBroken(o.Items[c - 10])
     \/ c = TotalLinesCheck(o) /\ o.TotalLines # Len(o.Items)}

\* The validation rule an error of Generate speaks of, by its number.
ReportedCheck(e, o) ==
  IF Len(e.wraps) = 2
  THEN CASE e.wraps[2] = "buyer validation failed" -> 7
         [] e.wraps[2] = "seller validation failed" -> 8
         [] e.wraps[2] = "delivery validation failed" -> 9
         [] e.wraps[2] = "item at index %d validation failed" -> 11 + e.index
         [] OTHER -> 0
  ELSE CASE e.field = "EDIOrder.InterchangeSenderID" -> 1
         [] e.field = "EDIOrder.InterchangeReceiverID" -> 2
         [] e.field = "EDIOrder.InterchangeControlRef" -> 3
         [] e.field = "EDIOrder.MessageRefNumber" -> 4
         [] e.field = "EDIOrder.OrderNumber" -> 5
         [] e.field = "EDIOrder.OrderDate" -> 6
         [] e.field = "EDIOrder.Items" -> 10
         [] e.field = "EDIOrder.TotalLines" -> TotalLinesCheck(o)
         [] OTHER -> 0

C17_FirstFailureWins ==
  pc \in GeneratePcs =>
    /\ err.cause = "ValidationError" =>
         /\ pc = "done"
         /\ err.wraps[1] = "order validation failed"
         /\ FailingChecks(order) # {}
         /\ ReportedCheck(err, order) = MinOf(FailingChecks(order))
    /\ (FailingChecks(order) # {} /\ err # ErrContextCancelled) =>
         err.cause = "ValidationError"

\* Both items are invalid and the first one is reported.
C17_Witness ==
  /\ pc = "done"
  /\ err.cause = "ValidationError"
  /\ Len(order.Items) = 2
  /\ ItemBroken(order.Items[1])
  /\ ItemBroken(order.Items[2])
  /\ err.index = 0
  /\ Cardinality(FailingChecks(order)) = 2

\* A later check fails too, and the earlier one is reported.
C17_WitnessAddress ==
  /\ pc = "done"
  /\ err.wraps = <<"order validation failed", "seller validation failed">>
  /\ FailingChecks(order) = {8, 9}

(***************************************************************************)
(* C18  The item segments are written in the order of Items, for each item *)
(* its LIN, IMD, QTY, PRI and MOA in that order, followed by a DTM with    *)
(* qualifier 64 exactly when the item's delivery date is not zero; they    *)
(* form one block, with no other segment between two of them.              *)
(***************************************************************************)
IsItemEntry(x) ==
  Label(x.seg) \in {<<SegmentTagLIN, <<>>>>, <<SegmentTagIMD, <<>>>>,
                    <<SegmentTagQTY, <<>>>>, <<SegmentTagPRI, <<>>>>,
                    <<SegmentTagMOA, <<"2", "0", "3">>>>, <<SegmentTagDTM, <<"6", "4">>>>}

ItemEntries(w) == SelectSeq(w, IsItemEntry)

RECURSIVE ExpectedItemSegments(_, _)
ExpectedItemSegments(items, k) ==
  IF k > Len(items) THEN <<>>
  ELSE <<BuildLIN(items[k]), BuildIMD(items[k]), BuildQTY(items[k]), BuildPRI(items[k]),
         BuildMOA(items[k])>>
       \o (IF IsZero(items[k].DeliveryDate) THEN <<>>
           ELSE <<BuildDTM(items[k].DeliveryDate, <<"6", "4">>)>>)
       \o ExpectedItemSegments(items, k + 1)

OneBlock(w) ==
  LET ps == {i \in 1..Len(w) : IsItemEntry(w[i])}
  IN \A i \in ps : i + 1 \in ps \/ \A j \in ps : j <= i

C18_PerItemGrouping ==
  pc \in GeneratePcs =>
    LET written == [i \in 1..Len(ItemEntries(out)) |-> ItemEntries(out)[i].seg]
    IN /\ OneBlock(out)
       /\ IsPrefixOf(written, ExpectedItemSegments(order.Items, 1))
       /\ GenerateSucceeded => written = ExpectedItemSegments(order.Items, 1)

C18_Witness ==
  /\ GenerateSucceeded
  /\ Len(order.Items) = 2
  /\ ~IsZero(order.Items[1].DeliveryDate)
  /\ IsZero(order.Items[2].DeliveryDate)
  /\ ~IsZero(order.DeliveryDate)
  /\ Len(ItemEntries(out)) = 11
  /\ ItemEntries(out)[6].seg.Tag = SegmentTagDTM
  /\ ItemEntries(out)[7].seg = BuildLIN(order.Items[2])

(***************************************************************************)
(* C19  When Generate succeeds: a delivery DTM follows the document DTM    *)
(* exactly when DeliveryDate is not zero, with qualifier 2 unless          *)
(* DeliveryDateQualifier is not empty, which then is its qualifier; there  *)
(* is a CUX exactly when Currency is not empty; there is a NAD of the      *)
(* delivery party, and one of the invoice party, exactly when that         *)
(* party's name is not empty; and there is exactly one buyer NAD and one   *)
(* seller NAD.                                                             *)
(***************************************************************************)
LabelCount(w, label) == Cardinality({i \in 1..Len(w) : Label(w[i].seg) = label})

\* The DTM segments written before the parties.
HeaderDTMs(w) ==
  {p \in PositionsOf(w, SegmentTagDTM) : \A n \in PositionsOf(w, SegmentTagNAD) : p < n}

C19_HeaderPresence ==
  GenerateSucceeded =>
    /\ Cardinality(HeaderDTMs(out)) = 1 + Expect(~IsZero(order.DeliveryDate))
    /\ \A p \in HeaderDTMs(out) :
         p # MinOf(HeaderDTMs(out)) =>
           UntilColon(FirstElement(out, p))
             = IF order.DeliveryDateQualifier = <<>> THEN <<"2">>
               ELSE order.DeliveryDateQualifier
    /\ CountOf(out, SegmentTagCUX) = Expect(order.Currency # <<>>)
    /\ LabelCount(out, <<SegmentTagNAD, <<"B", "Y">>>>) = 1
    /\ LabelCount(out, <<SegmentTagNAD, <<"S", "E">>>>) = 1
    /\ LabelCount(out, <<SegmentTagNAD, <<"D", "P">>>>) = Expect(order.Delivery.Name # <<>>)
    /\ LabelCount(out, <<SegmentTagNAD, <<"I", "V">>>>) = Expect(order.Invoice.Name # <<>>)
    /\ CountOf(out, SegmentTagNAD)
         = 2 + Expect(order.Delivery.Name # <<>>) + Expect(order.Invoice.Name # <<>>)

\* A delivery date under its own qualifier, a delivery party, no invoice
\* party.
C19_Witness ==
  /\ GenerateSucceeded
  /\ ~IsZero(order.DeliveryDate)
  /\ order.DeliveryDateQualifier # <<>>
  /\ Cardinality(HeaderDTMs(out)) = 2
  /\ order.Currency # <<>>
  /\ CountOf(out, SegmentTagCUX) = 1

\* A delivery party and no invoice party, no currency.
C19_WitnessParties ==
  /\ GenerateSucceeded
  /\ order.Delivery.Name # <<>>
  /\ order.Invoice.Name = <<>>
  /\ order.Currency = <<>>
  /\ IsZero(order.DeliveryDate)
  /\ CountOf(out, SegmentTagNAD) = 3
  /\ CountOf(out, SegmentTagCUX) = 0

(***************************************************************************)
(* C20  In every TOD, PAT and TDT segment written, the last element        *)
(* carries the coded field of the order when that is not empty, and the    *)
(* free text only when the coded field is empty; in TOD it follows "::".   *)
(***************************************************************************)
CodedOrText(code, text) == IF code # <<>> THEN code ELSE text

TrailingElement(w, p) == w[p].seg.Elements[Len(w[p].seg.Elements)]

\* The bytes written for the segment end with the element, the terminator
\* and the line feed.
EndsWith(text, tail) ==
  /\ Len(tail) <= Len(text)
  /\ SubSeq(text, Len(text) - Len(tail) + 1, Len(text)) = tail

C20_CodedVariantWins ==
  pc \in GeneratePcs =>
    /\ \A p \in PositionsOf(out, SegmentTagTOD) :
         LET e == <<":", ":">> \o CodedOrText(order.DeliveryTermsCode, order.DeliveryTerms)
         IN TrailingElement(out, p) = e /\ EndsWith(out[p].text, <<"+">> \o e \o <<"'", "\n">>)
    /\ \A p \in PositionsOf(out, SegmentTagPAT) :
         LET e == CodedOrText(order.PaymentTermsCode, order.PaymentTerms)
         IN TrailingElement(out, p) = e /\ EndsWith(out[p].text, <<"+">> \o e \o <<"'", "\n">>)
    /\ \A p \in PositionsOf(out, SegmentTagTDT) :
         LET e == CodedOrText(order.TransportModeCode, order.TransportMode)
         IN TrailingElement(out, p) = e /\ EndsWith(out[p].text, <<"+">> \o e \o <<"'", "\n">>)

\* Code and free text both set in the three segments: the codes are written.
C20_Witness ==
  /\ GenerateSucceeded
  /\ order.DeliveryTerms # <<>> /\ order.DeliveryTermsCode # <<>>
  /\ order.PaymentTerms # <<>> /\ order.PaymentTermsCode # <<>>
  /\ order.TransportMode # <<>> /\ order.TransportModeCode # <<>>
  /\ \E p \in PositionsOf(out, SegmentTagTOD) :
       TrailingElement(out, p) = <<":", ":">> \o order.DeliveryTermsCode
  /\ \E p \in PositionsOf(out, SegmentTagPAT) :
       TrailingElement(out, p) = order.PaymentTermsCode
  /\ \E p \in PositionsOf(out, SegmentTagTDT) :
       TrailingElement(out, p) = order.TransportModeCode

\* Free text alone: the text is written.
C20_WitnessText ==
  /\ GenerateSucceeded
  /\ order.PaymentTerms # <<>> /\ order.PaymentTermsCode = <<>>
  /\ \E p \in PositionsOf(out, SegmentTagPAT) :
       TrailingElement(out, p) = order.PaymentTerms


(***************************************************************************)
(* C21: a call of WithCustomSeparators that returns ErrInvalidSeparator    *)
(* leaves the generator's segment terminator, element separator, component *)
(* separator, decimal mark and release character as they were before the   *)
(* call.                                                                   *)
(***************************************************************************)
C21_FailedReconfigurationFrame ==
  [][cfgRes' = "ErrInvalidSeparator" => gen' = gen]_vars


(***************************************************************************)
(* C22: all segments written by one Generate call are serialized with one  *)
(* and the same element separator and segment terminator, also when        *)
(* WithCustomSeparators is called on the generator while the call runs.    *)
(* The element separator of a chunk is the character after the tag, its    *)
(* terminator the character before the line feed.                          *)
(***************************************************************************)
ElementSeparatorOf(chunk) == chunk.text[Len(chunk.seg.Tag) + 1]

TerminatorOf(chunk) == chunk.text[Len(chunk.text) - 1]

C22_ConsistentSeparators ==
  \A i, j \in 1..Len(calls[1].out) :
    /\ ElementSeparatorOf(calls[1].out[i]) = ElementSeparatorOf(calls[1].out[j])
    /\ TerminatorOf(calls[1].out[i]) = TerminatorOf(calls[1].out[j])


(***************************************************************************)
(* C23: for every order that passes validation, the list-building Generate *)
(* emits the same sequence of segment tags as the streaming Generate, and  *)
(* puts the same segment count in UNT.                                     *)
(***************************************************************************)
Tags(w) == [i \in 1..Len(w) |-> w[i].seg.Tag]

C23_VariantEquivalence ==
  pc = "both" =>
    /\ Tags(listOut) = Tags(out)
    /\ UNTCount(listOut) = UNTCount(out)

\* The variants agree on every order whose delivery date carries no location.
VariantsAgreeWithoutLocation ==
  (pc = "both" /\ order.DeliveryDate.loc = "nil") =>
    /\ Tags(listOut) = Tags(out)
    /\ CountOf(listOut, SegmentTagUNT) = 1
    /\ UNTCount(listOut) = UNTCount(out)

VariantsAgreeWitness ==
  /\ pc = "both"
  /\ Len(order.Items) = 2
  /\ ~IsZero(order.DeliveryDate)
  /\ order.Invoice.Name # <<>>
  /\ order.PaymentTerms # <<>>
  /\ ~IsZero(order.Items[2].DeliveryDate)

====
